---------------------------- MODULE Spec2Model ----------------------------
(***************************************************************************)
(* Model of kordesii/utils/decoderutils.py: the Encoded String Model, the   *)
(* String Splitter (split_decoded_string), the Charset Detector            *)
(* (EncodedString.decode_unknown_charset), the discovery drivers, the      *)
(* Decode Pipeline (decode_strings), the Output Stage (output_strings) and *)
(* the engine run (string_decoder_main).  Each component has its own       *)
(* specification over the shared variables.                                *)
(*                                                                         *)
(* Byte strings (python 2 str) and texts (python 2 unicode) are sequences  *)
(* of integers: byte values, resp. code points.  Python indexes from 0,    *)
(* TLA+ sequences from 1: At and PySlice do the translation, every index   *)
(* variable of the model holds the python value.                           *)
(***************************************************************************)
EXTENDS Integers, Sequences, FiniteSets

\* ------------------------------------------------------------------ bounds
\* longest decoded buffer handed to split_decoded_string
MaxLen == 10
\* how far the recorded size may differ from the length of the buffer
SizeSlack == 1
\* longest decoded data handed to decode_unknown_charset
MaxData == 5
\* calls of decode_unknown_charset on one entity
MaxCalls == 3
\* bytes of the loaded image the Encoded String Model is exercised on
ImageLen == 4
\* entities in the list handed to decode_strings
MaxBatch == 3
\* entities in the list handed to output_strings
MaxOutput == 2
\* largest size of an entity that is patched
MaxPatch == 2
\* Pattern Matcher hits of an engine run
MaxHits == 1
\* cross-references the Binary Context returns for a function
MaxXrefs == 3
\* calls of rename on one SuperFunc_t
MaxRenames == 2
\* engine runs in one process
MaxRuns == 2
\* items of one result list handed to ResultComparison.compare
MaxItems == 2
\* calls of compare on one ResultComparison
MaxCompares == 2
\* calls of update_test_results on one results file
MaxUpdates == 3
\* candidates handed to a discovery driver: Pattern Matcher hits, or callers of
\* the located functions (and as many functions at most)
MaxMatches == 3

\* ------------------------------------------------------- program constants
INVALID == -1
\* UNUSED is None, which python 2 orders below every number: here the integer
\* below INVALID
UNUSED == -2
\* idc.BADADDR, the all-ones address; here the largest integer of the model
BADADDR == 2147483647
NUL == 0

\* The bytes the buffers are drawn from: the null byte, a 7-bit letter ("A",
\* 0x41) and a high byte (0xE9).
Byte == {NUL, 65, 233}

\* split_decoded_string compares bytes with the null byte only: its buffers are
\* drawn from the null byte and one letter, which leaves room for longer buffers
SplitByte == {NUL, 65}

\* an address of the loaded image
Locations == {4096}

Min(a, b) == IF a < b THEN a ELSE b

\* every string over the bytes B of length 0..n
BytesUpTo(B, n) == UNION {[1..k -> B] : k \in 0..n}

VARIABLES
    entity,         \* the EncodedString / EncodedStackString the operations act on
    identify,       \* split_decoded_string's identify argument
    pc,             \* position in split_decoded_string
    section_start,  \* locals of split_decoded_string
    section_end,
    string_end,
    results,        \* the list split_decoded_string builds and returns
    defined,        \* startEA of each define() call made for identify
    calls,          \* per decode_unknown_charset call: the text returned and the
                    \* code_page the entity holds after it
    idb,            \* the Binary Context: the loaded image and the xrefs
    log,            \* the observable events, in order: debug records and the calls
                    \* made to the tracer, the decoder and the Binary Context
    host,           \* what the operation at hand was called with
    matches,        \* the hits (ea, identifier) of the Pattern Matcher handed over
    funcs,          \* the SuperFunc_t list handed to find_encoded_strings
    index,          \* position of the loop at hand in its list
    encoded_strings,    \* the list a discovery driver builds; decode_strings' input
    decoded_strings,    \* the list decode_strings builds; output_strings' input
    string_list,        \* the list output_strings builds
    outcome,            \* what the operation at hand returned or raised
    INPUT_FILE_PATH,    \* the module globals
    ENCODED_STRINGS,
    YARA_MATCHES,
    comparer,           \* the ResultComparison object: code, missing, unexpected
    results_file        \* the results file of one decoder: "absent" or its records

\* the state of the splitter and the detector besides entity, pc and results
tokenizer == <<identify, section_start, section_end, string_end, defined, calls>>

\* the lists handed from stage to stage
lists == <<encoded_strings, decoded_strings, string_list>>

\* the module globals
globals == <<INPUT_FILE_PATH, ENCODED_STRINGS, YARA_MATCHES>>

\* the state of the drivers, the pipeline and the engine run
pipeline == <<idb, log, host, matches, funcs, index, lists, outcome, globals>>

\* the state of the test case support
tester == <<comparer, results_file>>

vars == <<entity, pc, results, tokenizer, pipeline, tester>>

\* ------------------------------------------------------- python primitives
\* s[i]
At(s, i) == s[i + 1]

\* s[a:b] for 0 <= a, 0 <= b
PySlice(s, a, b) == SubSeq(s, a + 1, Min(b, Len(s)))

\* s[a:]
PyFrom(s, a) == SubSeq(s, a + 1, Len(s))

\* s.find('\x00\x00')
FindDoubleNull(s) ==
    LET hits == {i \in 0..(Len(s) - 2) : At(s, i) = NUL /\ At(s, i + 1) = NUL}
    IN  IF hits = {} THEN -1 ELSE CHOOSE i \in hits : \A j \in hits : i <= j

\* s.rfind('\x00')
RFindNull(s) ==
    LET hits == {i \in 0..(Len(s) - 1) : At(s, i) = NUL}
    IN  IF hits = {} THEN -1 ELSE CHOOSE i \in hits : \A j \in hits : i >= j

\* --------------------------------------------------------- Binary Context
\* an image of n bytes loaded at the addresses of Locations and after, every
\* byte the letter; no xrefs
ImageOfLetters(n) ==
    [image |-> [a \in {l + k : l \in Locations, k \in 0..(n - 1)} |-> 65],
     xrefs |-> {}]

\* idaapi.get_many_bytes(ea, size): the bytes, None when an address is not loaded
get_many_bytes(ea, size) ==
    IF \A a \in ea..(ea + size - 1) : a \in DOMAIN idb.image
    THEN [type |-> "str", data |-> [k \in 1..size |-> idb.image[ea + k - 1]]]
    ELSE [type |-> "None", data |-> <<>>]

\* list(idautils.XrefsTo(ea)) is not empty
HasXrefsTo(ea) == ea \in idb.xrefs

\* --------------------------------------------------------- EncodedString
\* EncodedString.get_bytes (raises ValueError when size is INVALID, gives INVALID
\* for bytes that cannot be read) and EncodedStackString.get_bytes (INVALID)
get_bytes(cls, loc, size) ==
    IF cls = "EncodedStackString" THEN [type |-> "INVALID", data |-> <<>>]
    ELSE IF size = INVALID THEN [type |-> "ValueError", data |-> <<>>]
    ELSE IF size = 0 THEN [type |-> "str", data |-> <<>>]
    ELSE IF get_many_bytes(loc, size).type = "None" THEN [type |-> "INVALID", data |-> <<>>]
    ELSE get_many_bytes(loc, size)

\* EncodedString.__init__ / EncodedStackString.__init__ (which passes INVALID as
\* the location).  decoded_data is INVALID, a str or a unicode: decoded_type says
\* which, and decoded_data holds the bytes or code points (<<>> when INVALID).
\* encoded_data is INVALID or a str, in the same way.  frame_id and stack_offset
\* are the EncodedStackString's (None by default); an EncodedString has neither
\* and carries UNUSED.
NewEntity(cls, loc, size) ==
    LET encoded_data == IF size \notin {INVALID, UNUSED}
                        THEN get_bytes(cls, loc, size)
                        ELSE [type |-> "INVALID", data |-> <<>>]
    IN  [cls |-> cls,
         string_location |-> loc,
         string_reference |-> INVALID,
         size |-> size,
         offset |-> INVALID,
         key |-> INVALID,
         encoded_type |-> encoded_data.type,
         encoded_data |-> encoded_data.data,
         decoded_type |-> "INVALID",
         decoded_data |-> <<>>,
         code_page |-> "None",
         frame_id |-> UNUSED,
         stack_offset |-> UNUSED]

\* the decoder's assignment of decoded_data (decode_strings, line 919)
Decoded(e, type, data) == [e EXCEPT !.decoded_type = type, !.decoded_data = data]

\* EncodedString.startEA
startEA(e) ==
    IF e.string_location \in {INVALID, BADADDR}
    THEN INVALID
    ELSE e.string_location + (IF e.offset # INVALID THEN e.offset ELSE 0)

\* what an operation returned (raised is "none"; none tells None from a value)
\* or the exception it raised
Returns(value) == [raised |-> "none", none |-> FALSE, value |-> value]

ReturnsNone == [raised |-> "none", none |-> TRUE, value |-> <<>>]

Raises(exception) == [raised |-> exception, none |-> FALSE, value |-> <<>>]

NoOutcome == Returns(<<>>)

\* the drivers, the pipeline and the engine run have not been called
\* nothing was logged or returned, the globals are as the import leaves them
\* (INPUT_FILE_PATH is not looked at outside the engine run)
Quiet ==
    /\ log = <<>>
    /\ outcome = NoOutcome
    /\ string_list = <<>>
    /\ matches = <<>>
    /\ funcs = <<>>
    /\ INPUT_FILE_PATH = "none"
    /\ ENCODED_STRINGS = <<>>
    /\ YARA_MATCHES = <<>>

PipelineIdle ==
    /\ Quiet
    /\ host = "none"
    /\ index = 0
    /\ encoded_strings = <<>>
    /\ decoded_strings = <<>>

\* no comparison was made and no results file is at hand
TesterIdle ==
    /\ comparer = "none"
    /\ results_file = "none"

\* the splitter and the detector have not been called
TokenizerIdle ==
    /\ identify = FALSE
    /\ section_start = 0
    /\ section_end = 0
    /\ string_end = 0
    /\ results = <<>>
    /\ defined = <<>>
    /\ calls = <<>>

\* ------------------------------------------------- split_decoded_string
\* the inner while of lines 736-737: step back two bytes at a time while on a null
RECURSIVE StepBack(_, _, _)
StepBack(data, string_start, sec_start) ==
    IF string_start >= sec_start /\ At(data, string_start) = NUL
    THEN StepBack(data, string_start - 2, sec_start)
    ELSE string_start

\* lines 733-744: where the next individual string starts
StringStart(data, sec_start, str_end) ==
    LET found == RFindNull(PySlice(data, sec_start, str_end))
    IN  IF found # -1
        THEN LET stepped == StepBack(data, found + sec_start, sec_start)
             IN  IF stepped > sec_start THEN stepped + 3
                 ELSE IF stepped < sec_start THEN sec_start
                 ELSE stepped
        ELSE sec_start

\* lines 747-755: the carved string, re-terminated, as a copy of the source entity
Carve(e, string_start, str_end) ==
    LET new_decoded_string == PySlice(e.decoded_data, string_start, str_end) \o <<NUL>>
    IN  [e EXCEPT !.decoded_data = new_decoded_string,
                  !.size = Len(new_decoded_string),
                  !.offset = string_start]

\* (mutant of Carved: line 751 without copy.copy, new_string is the source
\* entity itself)
CarvedInPlace(e, string_start, str_end) ==
    [decoded_string |-> Carve(e, string_start, str_end),
     new_string |-> Carve(e, string_start, str_end)]

\* lines 751-754: new_string is a copy.copy of decoded_string, and the three
\* assignments are made to the copy
Carved(e, string_start, str_end) ==
    [decoded_string |-> e, new_string |-> Carve(e, string_start, str_end)]

\* (mutant of SkipNulls: the null padding between sections is not skipped)
SkipNullsNot(data, size, sec_start) == [raised |-> FALSE, at |-> sec_start]

\* lines 769-770: skip blocks of nulls; indexing past the end of the str raises
RECURSIVE SkipNulls(_, _, _)
SkipNulls(data, size, sec_start) ==
    IF sec_start < size
    THEN IF sec_start >= Len(data)
         THEN [raised |-> TRUE, at |-> sec_start]
         ELSE IF At(data, sec_start) = NUL
              THEN SkipNulls(data, size, sec_start + 1)
              ELSE [raised |-> FALSE, at |-> sec_start]
    ELSE [raised |-> FALSE, at |-> sec_start]

\* (mutant of SectionEnd: the double null is not searched for, the section runs
\* to the end of the buffer)
SectionEndOfBuffer(data, size, sec_start) == size

\* lines 725-727 and 771-775: the end of the section that starts at sec_start
SectionEnd(data, size, sec_start) ==
    LET found == FindDoubleNull(PyFrom(data, sec_start))
    IN  IF found = -1 THEN size ELSE found + sec_start

\* line 778: results.sort(key=startEA), a stable sort
RECURSIVE InsertByKey(_, _)
InsertByKey(sorted, e) ==
    IF sorted = <<>> THEN <<e>>
    ELSE IF startEA(sorted[Len(sorted)]) <= startEA(e)
         THEN Append(sorted, e)
         ELSE Append(InsertByKey(SubSeq(sorted, 1, Len(sorted) - 1), e), sorted[Len(sorted)])

RECURSIVE SortFrom(_, _, _)
SortFrom(sorted, list, i) ==
    IF i > Len(list) THEN sorted ELSE SortFrom(InsertByKey(sorted, list[i]), list, i + 1)

SortByStartEA(list) == SortFrom(<<>>, list, 1)

\* lines 723-728
SplitBegin ==
    /\ pc = "call"
    /\ results' = <<>>
    /\ section_start' = 0
    /\ section_end' = SectionEnd(entity.decoded_data, entity.size, 0)
    /\ string_end' = section_end'
    /\ pc' = "string"
    /\ UNCHANGED <<entity, identify, defined, calls, pipeline, tester>>

\* lines 731-761: one pass of the inner loop
SplitString ==
    /\ pc = "string"
    /\ LET string_start == StringStart(entity.decoded_data, section_start, string_end)
           new_decoded_string == PySlice(entity.decoded_data, string_start, string_end)
           carved == Carved(entity, string_start, string_end)
       IN  /\ results' = IF new_decoded_string # <<>>
                         THEN Append(results, carved.new_string)
                         ELSE results
           /\ entity' = IF new_decoded_string # <<>> THEN carved.decoded_string ELSE entity
           /\ IF string_start = section_start
              THEN /\ pc' = "section"
                   /\ UNCHANGED string_end
              ELSE /\ pc' = "string"
                   /\ string_end' = string_start - 1
    /\ UNCHANGED <<identify, section_start, section_end, defined, calls, pipeline, tester>>

\* lines 763-776: a full section is processed, advance to the next one
SplitSection ==
    /\ pc = "section"
    /\ IF section_end = entity.size
       THEN /\ pc' = "sort"
            /\ UNCHANGED <<section_start, section_end, string_end>>
       ELSE LET skipped == SkipNulls(entity.decoded_data, entity.size, section_end + 2)
            IN  IF skipped.raised
                THEN /\ pc' = "IndexError"
                     /\ section_start' = skipped.at
                     /\ UNCHANGED <<section_end, string_end>>
                ELSE /\ pc' = "string"
                     /\ section_start' = skipped.at
                     /\ section_end' = SectionEnd(entity.decoded_data, entity.size, skipped.at)
                     /\ string_end' = section_end'
    /\ UNCHANGED <<entity, identify, results, defined, calls, pipeline, tester>>

\* lines 778-784: sort, define when asked to, return
SplitReturn ==
    /\ pc = "sort"
    /\ results' = SortByStartEA(results)
    /\ defined' = IF identify
                  THEN [i \in 1..Len(results') |-> startEA(results'[i])]
                  ELSE <<>>
    /\ pc' = "returned"
    /\ UNCHANGED <<entity, identify, section_start, section_end, string_end, calls, pipeline, tester>>

split_decoded_string == SplitBegin \/ SplitString \/ SplitSection \/ SplitReturn

\* The entities split_decoded_string is called on: a located EncodedString or an
\* EncodedStackString (whose string_location is INVALID), decoded to any byte
\* string, with the size the tracer recorded.
SplitInit ==
    /\ idb = ImageOfLetters(MaxLen + SizeSlack)
    /\ PipelineIdle
    /\ \E cls \in {"EncodedString", "EncodedStackString"} :
       \E data \in BytesUpTo(SplitByte, MaxLen) :
       \E d \in (0 - SizeSlack)..SizeSlack :
       \E loc \in Locations :
          /\ Len(data) + d >= 0
          /\ entity = Decoded(NewEntity(cls, IF cls = "EncodedString" THEN loc ELSE INVALID,
                                        Len(data) + d),
                              "str", data)
    /\ identify \in BOOLEAN
    /\ pc = "call"
    /\ section_start = 0
    /\ section_end = 0
    /\ string_end = 0
    /\ results = <<>>
    /\ defined = <<>>
    /\ calls = <<>>
    /\ TesterIdle

SplitSpec == SplitInit /\ [][split_decoded_string]_vars

\* ------------------------------------------------------------- the codecs
\* CODE_PAGES, lines 26-36
CODE_PAGES ==
    <<"ascii",
      "utf-32-be", "utf-32-le", "utf-16-be", "utf-16-le", "utf-8",
      "gb18030", "gbk",
      "gb2312", "hz",
      "big5hkscs", "big5",
      "koi8-r", "iso8859-5", "cp1251", "mac-cyrillic",
      "cp949",
      "iso8859-6", "cp1256",
      "latin1">>

\* line 467: the codecs that are retried with trailing nulls trimmed
WideCodecs == {"utf-16-le", "utf-16-be", "utf-32-le", "utf-32-be"}

\* str.decode(code_page) is python's codec library.  A decode is a record: ok is
\* FALSE where python raises UnicodeDecodeError, else text holds the code points.
\* The decoders below are python's on the strings over Byte (0x00, 0x41, 0xE9);
\* what those bytes cannot form (surrogates, four-byte UTF-8, the escapes of hz,
\* the four-byte forms of gb18030, other high bytes) is left out.
DecodeError == [ok |-> FALSE, text |-> <<>>]

DecodeOk(text) == [ok |-> TRUE, text |-> text]

\* ascii: the 7-bit bytes
DecodeAscii(b) ==
    IF \A i \in 1..Len(b) : b[i] < 128 THEN DecodeOk(b) ELSE DecodeError

\* utf-32-be / utf-32-le: four bytes per code point, below 0x110000; a truncated
\* tail is an error
DecodeUtf32(b, big) ==
    LET n == Len(b) \div 4
        byte(i, k) == IF big THEN b[4 * (i - 1) + k] ELSE b[4 * (i - 1) + (5 - k)]
    IN  IF Len(b) % 4 # 0 THEN DecodeError
        ELSE IF \E i \in 1..n : byte(i, 1) # 0 \/ byte(i, 2) > 16 THEN DecodeError
        ELSE DecodeOk([i \in 1..n |-> byte(i, 2) * 65536 + byte(i, 3) * 256 + byte(i, 4)])

\* utf-16-be / utf-16-le: two bytes per code unit; a truncated tail is an error
DecodeUtf16(b, big) ==
    LET n == Len(b) \div 2
        hi(i) == IF big THEN b[2 * i - 1] ELSE b[2 * i]
        lo(i) == IF big THEN b[2 * i] ELSE b[2 * i - 1]
    IN  IF Len(b) % 2 # 0 THEN DecodeError
        ELSE DecodeOk([i \in 1..n |-> hi(i) * 256 + lo(i)])

\* utf-8: one byte below 0x80, a two-byte lead 0xC2-0xDF or a three-byte lead
\* 0xE0-0xEF followed by continuation bytes 0x80-0xBF
RECURSIVE DecodeUtf8From(_, _)
DecodeUtf8From(b, i) ==
    LET cont(k) == k <= Len(b) /\ b[k] >= 128 /\ b[k] <= 191
        rest(k, cp) == LET r == DecodeUtf8From(b, k)
                       IN  IF r.ok THEN DecodeOk(<<cp>> \o r.text) ELSE DecodeError
    IN  IF i > Len(b) THEN DecodeOk(<<>>)
        ELSE IF b[i] < 128 THEN rest(i + 1, b[i])
        ELSE IF b[i] >= 194 /\ b[i] <= 223 /\ cont(i + 1)
             THEN rest(i + 2, (b[i] - 192) * 64 + (b[i + 1] - 128))
        ELSE IF b[i] >= 224 /\ b[i] <= 239 /\ cont(i + 1) /\ cont(i + 2)
                /\ (b[i] = 224 => b[i + 1] >= 160) /\ (b[i] = 237 => b[i + 1] <= 159)
             THEN rest(i + 3, (b[i] - 224) * 4096 + (b[i + 1] - 128) * 64 + (b[i + 2] - 128))
        ELSE DecodeError

\* the double-byte code pages: the code point of lead byte 0xE9 with trail byte
\* 0x41 or 0xE9 (-1: no such character)
DoubleByteChar(code_page, lead, trail) ==
    IF lead = 233 /\ trail = 65 /\ code_page \in {"gb18030", "gbk"} THEN 38195
    ELSE IF lead = 233 /\ trail = 65 /\ code_page \in {"big5hkscs", "big5"} THEN 22118
    ELSE IF lead = 233 /\ trail = 233 /\ code_page \in {"gb18030", "gbk", "gb2312"} THEN 27546
    ELSE IF lead = 233 /\ trail = 233 /\ code_page \in {"big5hkscs", "big5"} THEN 28589
    ELSE IF lead = 233 /\ trail = 233 /\ code_page = "cp949" THEN 37354
    ELSE -1

\* gb18030, gbk, gb2312, big5hkscs, big5, cp949: a byte below 0x80 is itself, a
\* high byte leads a two-byte character
RECURSIVE DecodeDoubleByteFrom(_, _, _)
DecodeDoubleByteFrom(code_page, b, i) ==
    LET rest(k, cp) == LET r == DecodeDoubleByteFrom(code_page, b, k)
                       IN  IF r.ok THEN DecodeOk(<<cp>> \o r.text) ELSE DecodeError
    IN  IF i > Len(b) THEN DecodeOk(<<>>)
        ELSE IF b[i] < 128 THEN rest(i + 1, b[i])
        ELSE IF i + 1 <= Len(b) /\ DoubleByteChar(code_page, b[i], b[i + 1]) # -1
             THEN rest(i + 2, DoubleByteChar(code_page, b[i], b[i + 1]))
        ELSE DecodeError

\* the single-byte code pages: the code point of a byte (-1: undefined)
SingleByteChar(code_page, c) ==
    IF c < 128 THEN c
    ELSE IF code_page = "latin1" THEN c
    ELSE IF c = 233 /\ code_page = "koi8-r" THEN 1048
    ELSE IF c = 233 /\ code_page = "iso8859-5" THEN 1097
    ELSE IF c = 233 /\ code_page \in {"cp1251", "mac-cyrillic"} THEN 1081
    ELSE IF c = 233 /\ code_page = "iso8859-6" THEN 1609
    ELSE IF c = 233 /\ code_page = "cp1256" THEN 233
    ELSE -1

\* (mutant of DecodeSingleByte: the single-byte code pages, latin1 among them,
\* decode nothing)
DecodeSingleByteFails(code_page, b) == DecodeError

DecodeSingleByte(code_page, b) ==
    IF \A i \in 1..Len(b) : SingleByteChar(code_page, b[i]) # -1
    THEN DecodeOk([i \in 1..Len(b) |-> SingleByteChar(code_page, b[i])])
    ELSE DecodeError

\* decoded_data.decode(code_page), lines 454, 464, 472
Decode(code_page, b) ==
    IF code_page = "ascii" THEN DecodeAscii(b)
    ELSE IF code_page = "utf-32-be" THEN DecodeUtf32(b, TRUE)
    ELSE IF code_page = "utf-32-le" THEN DecodeUtf32(b, FALSE)
    ELSE IF code_page = "utf-16-be" THEN DecodeUtf16(b, TRUE)
    ELSE IF code_page = "utf-16-le" THEN DecodeUtf16(b, FALSE)
    ELSE IF code_page = "utf-8" THEN DecodeUtf8From(b, 1)
    ELSE IF code_page = "hz" THEN DecodeAscii(b)
    ELSE IF code_page \in {"gb18030", "gbk", "gb2312", "big5hkscs", "big5", "cp949"}
         THEN DecodeDoubleByteFrom(code_page, b, 1)
    ELSE DecodeSingleByte(code_page, b)

\* text.rstrip(u'\x00')
RECURSIVE RStripNull(_)
RStripNull(text) ==
    IF text # <<>> /\ text[Len(text)] = NUL
    THEN RStripNull(SubSeq(text, 1, Len(text) - 1))
    ELSE text

\* the score of one character, line 435-436: char.encode('unicode-escape') starts
\* with \x (1) for a control or 0x7F-0xFF character other than \t \n \r, with \u
\* (2) for a character from 0x100 to 0xFFFF
RawBytesOfChar(c) ==
    IF c >= 256 THEN 2
    ELSE IF c >= 127 \/ (c < 32 /\ c \notin {9, 10, 13}) THEN 1
    ELSE 0

\* EncodedString._num_raw_bytes
RECURSIVE num_raw_bytes(_)
num_raw_bytes(string) ==
    IF string = <<>> THEN 0
    ELSE RawBytesOfChar(string[1]) + num_raw_bytes(SubSeq(string, 2, Len(string)))

\* --------------------------------------------- decode_unknown_charset
\* lines 468-477: trim one trailing null at a time until the wide codec decodes;
\* the while's else (no null left to trim) gives the code page up
RECURSIVE TrimAndRetry(_, _)
TrimAndRetry(code_page, decoded_data) ==
    IF decoded_data # <<>> /\ decoded_data[Len(decoded_data)] = NUL
    THEN LET trimmed == SubSeq(decoded_data, 1, Len(decoded_data) - 1)
             d == Decode(code_page, trimmed)
         IN  IF d.ok THEN DecodeOk(RStripNull(d.text))
             ELSE TrimAndRetry(code_page, trimmed)
    ELSE DecodeError

\* lines 463-480: the output of one candidate, or its failure
Candidate(code_page, decoded_data) ==
    LET d == Decode(code_page, decoded_data)
    IN  IF d.ok THEN DecodeOk(RStripNull(d.text))
        ELSE IF code_page \in WideCodecs THEN TrimAndRetry(code_page, decoded_data)
        ELSE DecodeError

\* (mutant of Better: a candidate with an equal score replaces the best one)
BetterOrEqual(best, score) == best.best_output = <<>> \/ score <= best.best_score

\* line 483: `not best_output or score < best_score`; None and u'' are both
\* falsy, best_output <<>> stands for either
Better(best, score) == best.best_output = <<>> \/ score < best.best_score

\* lines 459-486: the loop over CODE_PAGES from index i on
RECURSIVE DetectFrom(_, _, _)
DetectFrom(decoded_data, best, i) ==
    IF i > Len(CODE_PAGES) THEN best
    ELSE LET c == Candidate(CODE_PAGES[i], decoded_data)
             score == num_raw_bytes(c.text)
         IN  IF c.ok /\ Better(best, score)
             THEN DetectFrom(decoded_data,
                             [best_score |-> score, best_output |-> c.text,
                              best_code_page |-> CODE_PAGES[i]],
                             i + 1)
             ELSE DetectFrom(decoded_data, best, i + 1)

\* lines 459-492: full detection; the text returned and the code_page left
FullDetection(e) ==
    LET best == DetectFrom(e.decoded_data,
                           [best_score |-> Len(e.decoded_data), best_output |-> <<>>,
                            best_code_page |-> "None"],
                           1)
    IN  IF best.best_output # <<>>
        THEN [text |-> best.best_output, code_page |-> best.best_code_page]
        ELSE [text |-> <<>>, code_page |-> e.code_page]

\* lines 443-492
DecodeUnknownCharset(e) ==
    IF e.decoded_type = "INVALID" THEN [text |-> <<>>, code_page |-> e.code_page]
    ELSE IF e.decoded_type = "unicode" THEN [text |-> e.decoded_data, code_page |-> e.code_page]
    ELSE IF e.code_page # "None" /\ Decode(e.code_page, e.decoded_data).ok
         THEN [text |-> Decode(e.code_page, e.decoded_data).text, code_page |-> e.code_page]
    ELSE FullDetection(e)

\* EncodedString.decode_unknown_charset (unicode(entity), lines 271-272)
decode_unknown_charset ==
    /\ Len(calls) < MaxCalls
    /\ LET r == DecodeUnknownCharset(entity)
       IN  /\ entity' = [entity EXCEPT !.code_page = r.code_page]
           /\ calls' = Append(calls, r)
    /\ UNCHANGED <<identify, pc, section_start, section_end, string_end, results, defined, pipeline, tester>>

\* The entities decode_unknown_charset is called on: not decoded (decoded_data
\* INVALID), decoded to any str over Byte, or decoded to a unicode.
DetectInit ==
    /\ idb = ImageOfLetters(MaxData)
    /\ PipelineIdle
    /\ \E cls \in {"EncodedString", "EncodedStackString"} :
       \E type \in {"INVALID", "str", "unicode"} :
       \E data \in BytesUpTo(Byte, MaxData) :
       \E loc \in Locations :
          /\ type = "INVALID" => data = <<>>
          /\ entity = Decoded(NewEntity(cls, IF cls = "EncodedString" THEN loc ELSE INVALID,
                                        Len(data)),
                              type, data)
    /\ identify = FALSE
    /\ pc = "idle"
    /\ section_start = 0
    /\ section_end = 0
    /\ string_end = 0
    /\ results = <<>>
    /\ defined = <<>>
    /\ calls = <<>>
    /\ TesterIdle

DetectSpec == DetectInit /\ [][decode_unknown_charset]_vars


\* ------------------------------------------------ the Encoded String Model
\* idc.FindBinary(ea, SEARCH_DOWN, "00 " * width): the first address from ea on
\* at which width null bytes are loaded, BADADDR when there is none
FindBinary(ea, width) ==
    LET hits == {a \in DOMAIN idb.image :
                    /\ a >= ea
                    /\ \A k \in 0..(width - 1) :
                           (a + k) \in DOMAIN idb.image /\ idb.image[a + k] = NUL}
    IN  IF hits = {} THEN BADADDR ELSE CHOOSE a \in hits : \A b \in hits : a <= b

\* lines 400-402: the distance to the null, padded to a multiple of width
PaddedSize(distance, width) == distance + ((width - (distance % width)) % width)

\* EncodedString.calc_size and EncodedStackString.calc_size (which raises)
calc_size ==
    /\ pc = "new"
    /\ \E width \in {1, 2} :
          IF entity.cls = "EncodedStackString"
          THEN /\ outcome' = Raises("ValueError")
               /\ UNCHANGED entity
          ELSE LET end_location == FindBinary(entity.string_location, width)
                   size == PaddedSize(end_location - entity.string_location, width)
                   bytes == get_bytes(entity.cls, entity.string_location, size)
               IN  IF end_location = BADADDR
                   THEN /\ outcome' = Returns(BADADDR)
                        /\ UNCHANGED entity
                   ELSE /\ outcome' = Returns(size)
                        /\ entity' = IF entity.encoded_type = "INVALID"
                                      THEN [entity EXCEPT !.size = size,
                                                          !.encoded_type = bytes.type,
                                                          !.encoded_data = bytes.data]
                                      ELSE [entity EXCEPT !.size = size]
    /\ UNCHANGED <<pc, results, tokenizer, idb, log, host, matches, funcs, index, lists, globals, tester>>

\* the decoder's result is assigned to the entity (decoded_string.setter, lines
\* 194-198): a str as long as the encoded bytes; split_decoded_string can be
\* called from here on
decoded_string_setter ==
    /\ pc = "new"
    /\ entity.encoded_type = "str"
    /\ \E data \in BytesUpTo(SplitByte, Len(entity.encoded_data)) :
          /\ Len(data) = Len(entity.encoded_data)
          /\ entity' = Decoded(entity, "str", data)
    /\ pc' = "call"
    /\ UNCHANGED <<results, tokenizer, pipeline, tester>>

\* GetManyBytes(index, len(delimiter)) == delimiter
BytesAre(ea, delimiter) ==
    /\ get_many_bytes(ea, Len(delimiter)).type = "str"
    /\ get_many_bytes(ea, Len(delimiter)).data = delimiter

\* the last loaded address
ImageEnd == CHOOSE a \in DOMAIN idb.image : \A b \in DOMAIN idb.image : a >= b

\* lines 822-824: step until the delimiter is right aligned
RECURSIVE StepToAligned(_, _)
StepToAligned(i, delimiter) ==
    IF ~HasXrefsTo(i) /\ BytesAre(i + 1, delimiter)
    THEN StepToAligned(i + 1, delimiter)
    ELSE i

\* past the image no byte is the delimiter: with no ref ahead either, the loop
\* of lines 832-834 goes on for ever
NothingAhead(i) == i > ImageEnd /\ \A ref \in idb.xrefs : ref < i

\* lines 832-834: consume bytes up to a delimiter or a ref (cut off where
\* nothing is ahead)
RECURSIVE ConsumeString(_, _)
ConsumeString(i, delimiter) ==
    IF NothingAhead(i) THEN i
    ELSE IF ~HasXrefsTo(i) /\ ~BytesAre(i, delimiter)
         THEN ConsumeString(i + 1, delimiter)
         ELSE i

\* lines 836-840: the copy for the string found from start up to next
UnrefdString(e, start, next) ==
    [e EXCEPT !.offset = start - e.string_location, !.size = next - start]

\* lines 807-840: the loop of find_unrefd_encoded_strings from address i on
RECURSIVE FindUnrefdFrom(_, _, _, _)
FindUnrefdFrom(e, delimiter, i, found) ==
    IF HasXrefsTo(i) THEN Returns(found)
    ELSE IF BytesAre(i, delimiter)
         THEN IF Len(delimiter) > 1 /\ \E k \in 0..(Len(delimiter) - 1) : HasXrefsTo(i + k)
              THEN Returns(found)
              ELSE FindUnrefdFrom(e, delimiter, i + Len(delimiter), found)
         ELSE LET start == StepToAligned(i, delimiter)
                  next == ConsumeString(start + 1, delimiter)
              IN  IF HasXrefsTo(start) THEN Returns(found)
                  ELSE IF NothingAhead(next) THEN Raises("no ref: the loop does not end")
                  ELSE FindUnrefdFrom(e, delimiter, next,
                                      Append(found, UnrefdString(e, start, next)))

\* find_unrefd_encoded_strings(encoded_string, delimiter), called on a located
\* entity of known size
find_unrefd_encoded_strings ==
    /\ pc = "new"
    /\ entity.cls = "EncodedString"
    /\ entity.size # INVALID
    /\ \E given \in {"None", "null", "double null"} :
          LET delimiter == IF given = "double null"
                              \/ (given = "None" /\ entity.decoded_type = "unicode")
                           THEN <<NUL, NUL>> ELSE <<NUL>>
              found == FindUnrefdFrom(entity, delimiter,
                                      entity.string_location + entity.size, <<>>)
          IN  /\ outcome' = found
              /\ results' = found.value
    /\ pc' = "found"
    /\ UNCHANGED <<entity, tokenizer, idb, log, host, matches, funcs, index, lists, globals, tester>>

\* The entities a tracer constructs: of either variant, at a location of an
\* image of ImageLen bytes with at most one ref, with or without a size.
EntityInit ==
    /\ \E image \in [{l + k : l \in Locations, k \in 0..(ImageLen - 1)} -> SplitByte] :
       \E xrefs \in {{}} \cup {{l + k} : l \in Locations, k \in 1..(ImageLen + 1)} :
          idb = [image |-> image, xrefs |-> xrefs]
    /\ \E cls \in {"EncodedString", "EncodedStackString"} :
       \E size \in {INVALID} \cup 0..(ImageLen + 1) :
       \E loc \in Locations :
          entity = NewEntity(cls, IF cls = "EncodedString" THEN loc ELSE INVALID, size)
    /\ identify \in BOOLEAN
    /\ pc = "new"
    /\ section_start = 0
    /\ section_end = 0
    /\ string_end = 0
    /\ results = <<>>
    /\ defined = <<>>
    /\ calls = <<>>
    /\ PipelineIdle
    /\ TesterIdle

EntityNext ==
    \/ calc_size
    \/ decoded_string_setter
    \/ split_decoded_string
    \/ find_unrefd_encoded_strings

EntitySpec == EntityInit /\ [][EntityNext]_vars


\* ------------------------------------------------------ the event log
\* one observable event: op is append_debug (what tells which record) or the
\* name of the function called, arg the address or list position concerned
Event(op, what, arg) == [op |-> op, what |-> what, arg |-> arg]

\* the events of a log with the given op
EventsOf(events, op) == SelectSeq(events, LAMBDA ev : ev.op = op)

\* ---------------------------------------------------------- decode_strings
\* the entities of a batch, made the way tracers make them: a located string
\* with its size (bytes read), a located string without size, a stack string
\* with a size (no bytes), a stack string whose bytes the tracer has stored.
\* string_reference tells the entities of a batch apart.
BatchKinds == {"located", "located no size", "stack", "stack with bytes"}

BatchEntity(kind, ref) ==
    LET cls == IF kind \in {"located", "located no size"}
               THEN "EncodedString" ELSE "EncodedStackString"
        loc == IF cls = "EncodedString" THEN CHOOSE l \in Locations : TRUE ELSE INVALID
        e == [NewEntity(cls, loc, IF kind = "located no size" THEN INVALID ELSE 1)
                 EXCEPT !.string_reference = ref]
    IN  IF kind = "stack with bytes"
        THEN [e EXCEPT !.encoded_type = "str", !.encoded_data = <<65>>]
        ELSE e

\* every batch of up to n entities
Batches(n) ==
    UNION {{[i \in 1..k |-> BatchEntity(kinds[i], i)] : kinds \in [1..k -> BatchKinds]}
              : k \in 0..n}

\* what a decode function returns for an entity: None or the empty str (abort),
\* or decoded bytes
DecodeResults(e) ==
    {[type |-> "None", data |-> <<>>], [type |-> "str", data |-> <<>>]}
        \cup {[type |-> "str", data |-> d] : d \in {<<65>>, <<NUL>>, <<65, NUL>>}}

\* (mutant of Truthy: an aborted decode is kept)
TruthyAlways(e) == TRUE

\* line 920: `if encoded_string.decoded_string`
Truthy(e) == e.decoded_type \in {"str", "unicode"} /\ e.decoded_data # <<>>

\* lines 915-923: one pass of the loop
decode_strings_step ==
    /\ pc = "decode_strings"
    /\ index < Len(encoded_strings)
    /\ LET encoded_string == encoded_strings[index + 1]
       IN  IF encoded_string.encoded_type = "INVALID"
           THEN /\ log' = Append(log, Event("append_debug", "Unable to find string", index + 1))
                /\ UNCHANGED <<encoded_strings, decoded_strings>>
           ELSE \E result \in DecodeResults(encoded_string) :
                   LET decoded == Decoded(encoded_string, result.type, result.data)
                   IN  /\ encoded_strings' = [encoded_strings EXCEPT ![index + 1] = decoded]
                       /\ IF Truthy(decoded)
                          THEN /\ decoded_strings' = Append(decoded_strings, decoded)
                               /\ log' = Append(log, Event("decode", "", index + 1))
                          ELSE /\ UNCHANGED decoded_strings
                               /\ log' = log \o <<Event("decode", "", index + 1),
                                                   Event("append_debug", "Failed to decode string",
                                                         index + 1)>>
    /\ index' = index + 1
    /\ UNCHANGED <<entity, pc, results, tokenizer, idb, host, matches, funcs, string_list, outcome, globals, tester>>

\* line 924
decode_strings_return ==
    /\ pc = "decode_strings"
    /\ index = Len(encoded_strings)
    /\ outcome' = Returns(decoded_strings)
    /\ pc' = "decode_strings returned"
    /\ UNCHANGED <<entity, results, tokenizer, idb, log, host, matches, funcs, index, lists, globals, tester>>

decode_strings == decode_strings_step \/ decode_strings_return

\* decode_strings is called with a batch of up to MaxBatch entities (host keeps
\* the batch as it was handed over)
DecodeInit ==
    /\ idb = ImageOfLetters(1)
    /\ encoded_strings \in Batches(MaxBatch)
    /\ host = encoded_strings
    /\ pc = "decode_strings"
    /\ index = 0
    /\ decoded_strings = <<>>
    /\ entity = NewEntity("EncodedString", INVALID, INVALID)
    /\ TokenizerIdle
    /\ Quiet
    /\ TesterIdle

DecodeSpec == DecodeInit /\ [][decode_strings]_vars


\* ---------------------------------------------------- the discovery drivers
\* What Tracer(ea, identifier) and its search() do at a candidate address is the
\* tracer implementation's and the Binary Context's: the constructor raises
\* AttributeError (no function at ea, lines 633-635), or search() returns False
\* (leaving a half-traced string behind), or it returns True with no, one or two
\* strings in tracer.encoded_strings.
TracerKinds == {"no function", "not found", "found none", "found one", "found two"}

\* tracer.encoded_strings after search()
TracerStrings(kind, ea) ==
    IF kind = "found one" THEN <<BatchEntity("located", ea)>>
    ELSE IF kind = "found two"
         THEN <<BatchEntity("located", ea), BatchEntity("stack with bytes", ea)>>
    ELSE IF kind = "not found" THEN <<BatchEntity("located no size", ea)>>
    ELSE <<>>

\* (mutant of SearchTrue: the strings of a tracer are taken whatever search()
\* returned)
SearchTrueAlways(kind) == TRUE

\* `if tracer.search()`, lines 861 and 891
SearchTrue(kind) == kind \in {"found none", "found one", "found two"}

\* (mutant of TraceCandidate: the strings of a tracer are taken without
\* search() being called)
TraceCandidateUnsearched(ea, kind, miss) ==
    [strings |-> TracerStrings(kind, ea), events |-> <<Event("Tracer", "constructed", ea)>>]

\* lines 859-866 and 889-897: the try statement for one candidate; miss is the
\* debug record of the except clause
TraceCandidate(ea, kind, miss) ==
    IF kind = "no function"
    THEN [strings |-> <<>>,
          events |-> <<Event("Tracer", "AttributeError", ea), Event("append_debug", miss, ea)>>]
    ELSE IF SearchTrue(kind)
    THEN [strings |-> TracerStrings(kind, ea),
          events |-> <<Event("Tracer", "constructed", ea), Event("search", kind, ea)>>]
    ELSE [strings |-> <<>>,
          events |-> <<Event("Tracer", "constructed", ea), Event("search", kind, ea),
                       Event("append_debug", "Failed to find strings", ea)>>]

\* lines 858-866: one pass of the loop over the matches
find_encoded_strings_inline_step ==
    /\ pc = "find_encoded_strings_inline"
    /\ index < Len(matches)
    /\ \E kind \in TracerKinds :
          LET traced == TraceCandidate(matches[index + 1].ea, kind, "Error tracing")
          IN  /\ encoded_strings' = encoded_strings \o traced.strings
              /\ log' = log \o traced.events
    /\ index' = index + 1
    /\ UNCHANGED <<entity, pc, results, tokenizer, idb, host, matches, funcs,
                   decoded_strings, string_list, outcome, globals, tester>>

\* line 867
find_encoded_strings_inline_return ==
    /\ pc = "find_encoded_strings_inline"
    /\ index = Len(matches)
    /\ outcome' = Returns(encoded_strings)
    /\ pc' = "find_encoded_strings_inline returned"
    /\ UNCHANGED <<entity, results, tokenizer, idb, log, host, matches, funcs, index,
                   lists, globals, tester>>

find_encoded_strings_inline ==
    find_encoded_strings_inline_step \/ find_encoded_strings_inline_return

\* lines 884-885: the (func, ref) pairs in the order the two loops visit them
RECURSIVE XrefsOf(_, _)
XrefsOf(fs, k) ==
    IF k > Len(fs) THEN <<>>
    ELSE [j \in 1..Len(fs[k].xrefs_to) |->
             [ea |-> fs[k].xrefs_to[j], identifier |-> fs[k].identifier]]
         \o XrefsOf(fs, k + 1)

\* lines 885-897: one pass of the inner loop; the segment of the ref is the
\* Binary Context's
find_encoded_strings_step ==
    /\ pc = "find_encoded_strings"
    /\ index < Len(XrefsOf(funcs, 1))
    /\ LET ref == XrefsOf(funcs, 1)[index + 1].ea
       IN  \E SegName \in {".text", ".pdata"} :
              IF SegName = ".pdata"
              THEN /\ log' = Append(log, Event("append_debug", "Segment .pdata", ref))
                   /\ UNCHANGED encoded_strings
              ELSE \E kind \in TracerKinds :
                      LET traced == TraceCandidate(ref, kind, "No function exists")
                      IN  /\ encoded_strings' = encoded_strings \o traced.strings
                          /\ log' = log \o traced.events
    /\ index' = index + 1
    /\ UNCHANGED <<entity, pc, results, tokenizer, idb, host, matches, funcs,
                   decoded_strings, string_list, outcome, globals, tester>>

\* line 898
find_encoded_strings_return ==
    /\ pc = "find_encoded_strings"
    /\ index = Len(XrefsOf(funcs, 1))
    /\ outcome' = Returns(encoded_strings)
    /\ pc' = "find_encoded_strings returned"
    /\ UNCHANGED <<entity, results, tokenizer, idb, log, host, matches, funcs, index,
                   lists, globals, tester>>

find_encoded_strings == find_encoded_strings_step \/ find_encoded_strings_return

\* n Pattern Matcher hits (ea, identifier), at addresses of their own
MatchesAt(base, n) == [i \in 1..n |-> [ea |-> base + i, identifier |-> "$hit"]]

\* the SuperFunc_t of the k-th located function, with its callers
SuperFuncAt(k, callers) ==
    [startEA |-> 256 * k, endEA |-> 256 * k + 16, name |-> "sub", identifier |-> "$hit",
     xrefs_to |-> [j \in 1..callers |-> 256 * k + 32 + j]]

\* the sum of the numbers f[1..n]
RECURSIVE SumTo(_, _)
SumTo(f, n) == IF n = 0 THEN 0 ELSE f[n] + SumTo(f, n - 1)

\* a driver is called: the inline one with up to MaxMatches matches, the other
\* with up to MaxMatches functions that have up to MaxMatches callers in all
DriverInit ==
    /\ \/ /\ pc = "find_encoded_strings_inline"
          /\ \E n \in 0..MaxMatches : matches = MatchesAt(256, n)
          /\ funcs = <<>>
       \/ /\ pc = "find_encoded_strings"
          /\ \E n \in 0..MaxMatches : \E callers \in [1..n -> 0..MaxMatches] :
                /\ SumTo(callers, n) <= MaxMatches
                /\ funcs = [k \in 1..n |-> SuperFuncAt(k, callers[k])]
          /\ matches = <<>>
    /\ host = [matches |-> matches, funcs |-> funcs]
    /\ idb = ImageOfLetters(1)
    /\ index = 0
    /\ encoded_strings = <<>>
    /\ decoded_strings = <<>>
    /\ string_list = <<>>
    /\ log = <<>>
    /\ outcome = NoOutcome
    /\ INPUT_FILE_PATH = "none"
    /\ ENCODED_STRINGS = <<>>
    /\ YARA_MATCHES = <<>>
    /\ entity = NewEntity("EncodedString", INVALID, INVALID)
    /\ TokenizerIdle
    /\ TesterIdle

DriverNext == find_encoded_strings_inline \/ find_encoded_strings

DriverSpec == DriverInit /\ [][DriverNext]_vars


\* ---------------------------------------------------------- output_strings
\* _compare_key, as hash() and == see it: the fields of the key one after the
\* other, led by the number of fields (a 3-tuple never equals a 4-tuple).  The
\* entities of the Output Stage hold decoded data of type str.
compare_key(e) ==
    IF e.cls = "EncodedStackString"
    THEN <<4, e.string_reference, e.frame_id, e.stack_offset>> \o e.decoded_data
    ELSE <<3, e.string_location, e.string_reference>> \o e.decoded_data

\* a < b for two str
RECURSIVE StrLess(_, _)
StrLess(a, b) ==
    IF b = <<>> THEN FALSE
    ELSE IF a = <<>> THEN TRUE
    ELSE IF a[1] # b[1] THEN a[1] < b[1]
    ELSE StrLess(Tail(a), Tail(b))

\* __lt__, lines 243-244: the keys compared as python 2 compares tuples, item by
\* item.  A located key is (location, reference, data), a stack key (reference,
\* frame_id, stack_offset, data); where the two kinds meet, the third items are a
\* str and a number (or None), and python 2 orders every number and None below
\* every str.
Less(a, b) ==
    LET ka == IF a.cls = "EncodedStackString"
              THEN <<a.string_reference, a.frame_id, a.stack_offset>>
              ELSE <<a.string_location, a.string_reference>>
        kb == IF b.cls = "EncodedStackString"
              THEN <<b.string_reference, b.frame_id, b.stack_offset>>
              ELSE <<b.string_location, b.string_reference>>
    IN  IF ka[1] # kb[1] THEN ka[1] < kb[1]
        ELSE IF ka[2] # kb[2] THEN ka[2] < kb[2]
        ELSE IF Len(ka) = 2 /\ Len(kb) = 2 THEN StrLess(a.decoded_data, b.decoded_data)
        ELSE IF Len(ka) = 2 THEN FALSE
        ELSE IF Len(kb) = 2 THEN TRUE
        ELSE IF ka[3] # kb[3] THEN ka[3] < kb[3]
        ELSE StrLess(a.decoded_data, b.decoded_data)

\* line 1033, set(decoded_strings): of the entities with equal keys the first is
\* kept
RECURSIVE Dedup(_, _)
Dedup(list, kept) ==
    IF list = <<>> THEN kept
    ELSE IF \E i \in 1..Len(kept) : compare_key(kept[i]) = compare_key(list[1])
         THEN Dedup(Tail(list), kept)
         ELSE Dedup(Tail(list), Append(kept, list[1]))

\* line 1036, sorted(decoded_strings): a stable sort by __lt__
RECURSIVE InsertByLess(_, _)
InsertByLess(sorted, e) ==
    IF sorted = <<>> THEN <<e>>
    ELSE IF Less(e, sorted[Len(sorted)])
         THEN Append(InsertByLess(SubSeq(sorted, 1, Len(sorted) - 1), e), sorted[Len(sorted)])
         ELSE Append(sorted, e)

RECURSIVE Sorted(_, _)
Sorted(list, sorted) ==
    IF list = <<>> THEN sorted ELSE Sorted(Tail(list), InsertByLess(sorted, list[1]))

\* the character of a hexadecimal digit, in lower case
HexDigit(d) == IF d < 10 THEN 48 + d ELSE 87 + d

\* text.encode('unicode-escape'), line 269: the backslash is doubled, tab, line
\* feed and return are \t \n \r, the other characters outside 0x20-0x7E are
\* \xNN or \uNNNN
EscapeChar(c) ==
    IF c = 92 THEN <<92, 92>>
    ELSE IF c = 9 THEN <<92, 116>>
    ELSE IF c = 10 THEN <<92, 110>>
    ELSE IF c = 13 THEN <<92, 114>>
    ELSE IF c >= 32 /\ c < 127 THEN <<c>>
    ELSE IF c < 256 THEN <<92, 120, HexDigit(c \div 16), HexDigit(c % 16)>>
    ELSE <<92, 117, HexDigit(c \div 4096), HexDigit((c \div 256) % 16),
           HexDigit((c \div 16) % 16), HexDigit(c % 16)>>

RECURSIVE unicode_escape(_)
unicode_escape(text) ==
    IF text = <<>> THEN <<>> ELSE EscapeChar(text[1]) \o unicode_escape(Tail(text))

\* the entity after unicode(entity): decode_unknown_charset may record a codec
AfterUnicode(e) == [e EXCEPT !.code_page = DecodeUnknownCharset(e).code_page]

\* display_name, lines 281-283: the text in DISPLAY_CODE (ascii), a character
\* outside it replaced by a question mark
Displayed(text) == [i \in 1..Len(text) |-> IF text[i] < 128 THEN text[i] ELSE 63]

display_name(e) == Displayed(DecodeUnknownCharset(e).text)

\* a value python takes for false: None or 0 (INVALID, -1, is true)
Falsy(x) == x \in {UNUSED, 0}

\* EncodedString.rename(), lines 285-309, and EncodedStackString.rename(), lines
\* 555-581: the events, and the exception when one is raised
RenameAs(e, name) ==
    LET unable == IF name = <<>>
                  THEN <<Event("append_debug", "Unable to rename encoded string", startEA(e))>>
                  ELSE <<>>
        located == e.string_location \notin {INVALID, UNUSED}
        referenced == e.string_reference \notin {INVALID, UNUSED}
    IN  IF e.cls = "EncodedString"
        THEN IF name = <<>> THEN [events |-> unable, raised |-> "none"]
             ELSE [events |->
                       (IF located THEN <<Event("MakeRptCmt", "", e.string_location)>> ELSE <<>>)
                       \o (IF referenced THEN <<Event("MakeRptCmt", "", e.string_reference)>>
                           ELSE <<>>)
                       \o (IF located THEN <<Event("do_name_anyway", "", e.string_location)>>
                           ELSE <<>>),
                   raised |-> "none"]
        ELSE IF ~Falsy(e.frame_id) /\ ~Falsy(e.stack_offset)
             THEN IF name = <<>>
                  THEN [events |-> unable \o <<Event("SetMemberComment", "", e.stack_offset)>>,
                        raised |-> "ValueError"]
                  ELSE [events |->
                            <<Event("SetMemberComment", "", e.stack_offset),
                              Event("SetMemberName", "", e.stack_offset)>>
                            \o (IF ~Falsy(e.string_reference)
                                THEN <<Event("MakeRptCmt", "", e.string_reference)>> ELSE <<>>),
                        raised |-> "none"]
             ELSE [events |-> unable
                                \o (IF ~Falsy(e.string_reference)
                                    THEN <<Event("MakeRptCmt", "", e.string_reference)>>
                                    ELSE <<>>),
                   raised |-> "none"]

rename(e) == RenameAs(e, display_name(e))

\* (mutant of patch: an EncodedStackString is patched the way an EncodedString
\* is, at whatever startEA gives)
patch_at_startEA(e) ==
    [events |-> <<Event("patch_many_bytes", "", startEA(e)), Event("define", "", startEA(e))>>,
     image |-> idb.image]

\* EncodedString.patch(), lines 311-332, with define(), lines 335-343, and
\* EncodedStackString.patch(), lines 583-585: the events and the image after it.
\* as_bytes of empty data is INVALID, which patch_many_bytes refuses (TypeError).
patch(e) ==
    IF e.cls = "EncodedStackString" THEN [events |-> <<>>, image |-> idb.image]
    ELSE IF e.decoded_type \in {"INVALID", "None"} THEN [events |-> <<>>, image |-> idb.image]
    ELSE IF e.string_location \in {INVALID, UNUSED, BADADDR}
         THEN [events |-> <<>>, image |-> idb.image]
    ELSE IF e.decoded_data = <<>>
         THEN [events |-> <<Event("append_debug", "String type for decoded string", startEA(e))>>,
               image |-> idb.image]
    ELSE [events |-> <<Event("patch_many_bytes", "", startEA(e)),
                       Event("define", "", startEA(e))>>,
          image |-> [a \in DOMAIN idb.image |->
                        IF a >= startEA(e) /\ a < startEA(e) + Len(e.decoded_data)
                        THEN e.decoded_data[a - startEA(e) + 1]
                        ELSE idb.image[a]]]

\* lines 1032-1036: the entities in the order the loop takes them; the local
\* decoded_strings is the deduplicated, sorted list from here on
output_strings_begin ==
    /\ pc = "output_strings"
    /\ decoded_strings' = Sorted(IF host.dedup THEN Dedup(decoded_strings, <<>>)
                                 ELSE decoded_strings, <<>>)
    /\ string_list' = <<>>
    /\ index' = 0
    /\ pc' = "output_strings loop"
    /\ UNCHANGED <<entity, results, tokenizer, idb, log, host, matches, funcs,
                   encoded_strings, outcome, globals, tester>>

\* lines 1037-1049: one pass of the loop.  unicode(decoded_string) is taken for
\* str(), for append_string, for report() and for display_name, in this order.
output_strings_step ==
    /\ pc = "output_strings loop"
    /\ index < Len(decoded_strings)
    /\ \E decoded_string \in {decoded_strings[index + 1]} :
       \E text \in {DecodeUnknownCharset(decoded_string).text} :
       \E listed \in {AfterUnicode(decoded_string)} :
       \E emitted \in {AfterUnicode(listed)} :
       \E reported \in {IF emitted.decoded_type = "INVALID" THEN emitted
                         ELSE AfterUnicode(emitted)} :
       \E renaming \in {rename(reported)} :
       \E renamed \in {IF host.rename THEN AfterUnicode(reported) ELSE reported} :
       \E patching \in {patch(renamed)} :
       \E raised \in {host.rename /\ renaming.raised # "none"} :
           /\ string_list' = Append(string_list, unicode_escape(text))
           /\ decoded_strings' = [decoded_strings EXCEPT ![index + 1] = renamed]
           /\ log' = log
                       \o <<Event("append_string", "", index + 1)>>
                       \o (IF host.rename
                           THEN <<Event("rename", decoded_string.cls, index + 1)>>
                                    \o renaming.events
                           ELSE <<>>)
                       \o (IF host.patch /\ ~raised
                           THEN <<Event("patch", decoded_string.cls, index + 1)>>
                                    \o patching.events
                           ELSE <<>>)
           /\ idb' = IF host.patch /\ ~raised
                      THEN [idb EXCEPT !.image = patching.image] ELSE idb
           /\ IF raised
              THEN /\ outcome' = Raises(renaming.raised)
                   /\ pc' = "output_strings raised"
                   /\ UNCHANGED index
              ELSE /\ index' = index + 1
                   /\ UNCHANGED <<pc, outcome>>
    /\ UNCHANGED <<entity, results, tokenizer, host, matches, funcs, encoded_strings,
                   globals, tester>>

\* line 1051
output_strings_return ==
    /\ pc = "output_strings loop"
    /\ index = Len(decoded_strings)
    /\ outcome' = Returns(string_list)
    /\ pc' = "output_strings returned"
    /\ UNCHANGED <<entity, results, tokenizer, idb, log, host, matches, funcs, index,
                   lists, globals, tester>>

output_strings == output_strings_begin \/ output_strings_step \/ output_strings_return

\* a decoded entity of the Output Stage
OutputEntity(cls, loc, ref, frame_id, stack_offset, data) ==
    Decoded([NewEntity(cls, loc, Len(data)) EXCEPT !.string_reference = ref,
                                                   !.frame_id = frame_id,
                                                   !.stack_offset = stack_offset],
            "str", data)

\* The entities output_strings is exercised on.  Located: one entity, and those
\* that differ from it in the location, in the reference, in the decoded data (a
\* null only, which has no text) or in the offset alone.  Stack-resident: one
\* entity, and those that differ from it in the reference, in the frame, in the
\* stack offset or in the decoded data.
OutputEntities ==
    LET l == CHOOSE a \in Locations : TRUE
    IN  {OutputEntity("EncodedString", l, INVALID, UNUSED, UNUSED, <<65>>),
         OutputEntity("EncodedString", l + 1, INVALID, UNUSED, UNUSED, <<65>>),
         OutputEntity("EncodedString", l, l + 1, UNUSED, UNUSED, <<65>>),
         OutputEntity("EncodedString", l, INVALID, UNUSED, UNUSED, <<NUL>>),
         [OutputEntity("EncodedString", l, INVALID, UNUSED, UNUSED, <<65>>) EXCEPT !.offset = 0],
         OutputEntity("EncodedStackString", INVALID, INVALID, 7, 8, <<65>>),
         OutputEntity("EncodedStackString", INVALID, l + 1, 7, 8, <<65>>),
         OutputEntity("EncodedStackString", INVALID, INVALID, UNUSED, 8, <<65>>),
         OutputEntity("EncodedStackString", INVALID, INVALID, 7, UNUSED, <<65>>),
         OutputEntity("EncodedStackString", INVALID, INVALID, 7, 8, <<NUL>>)}

\* output_strings is called with up to MaxOutput entities and any flags (host
\* keeps the arguments)
OutputInit ==
    /\ idb = ImageOfLetters(2)
    /\ \E n \in 0..MaxOutput : decoded_strings \in [1..n -> OutputEntities]
    /\ \E dedup \in BOOLEAN : \E renaming \in BOOLEAN : \E patching \in BOOLEAN :
          host = [decoded_strings |-> decoded_strings, dedup |-> dedup,
                  rename |-> renaming, patch |-> patching]
    /\ pc = "output_strings"
    /\ index = 0
    /\ encoded_strings = <<>>
    /\ entity = NewEntity("EncodedString", INVALID, INVALID)
    /\ TokenizerIdle
    /\ Quiet
    /\ TesterIdle

OutputSpec == OutputInit /\ [][output_strings]_vars

\* ------------------------------------------------------------------ patch()
\* a decoder assigns its result to the entity (as line 919 does): None, the
\* empty str or bytes
assign_decoded_data ==
    /\ pc = "new"
    /\ \E result \in DecodeResults(entity) :
          entity' = Decoded(entity, result.type, result.data)
    /\ pc' = "decoded"
    /\ UNCHANGED <<results, tokenizer, pipeline, tester>>

\* entity.patch(), lines 311-332 and 583-585, called once on the entity
entity_patch ==
    /\ pc \in {"new", "decoded"}
    /\ EventsOf(log, "patch") = <<>>
    /\ \E patching \in {patch(entity)} :
          /\ log' = Append(log, Event("patch", entity.cls, startEA(entity))) \o patching.events
          /\ idb' = [idb EXCEPT !.image = patching.image]
    /\ UNCHANGED <<entity, pc, results, tokenizer, host, matches, funcs, index, lists,
                   outcome, globals, tester>>

\* An entity of either variant as a tracer builds it: with or without a size, a
\* located one with or without a location and an offset, a stack-resident one
\* with or without frame_id, stack_offset and encoded bytes.
PatchInit ==
    /\ idb = ImageOfLetters(MaxPatch)
    /\ \E size \in {INVALID} \cup 0..MaxPatch :
          \/ \E loc \in Locations \cup {INVALID} : \E offset \in {INVALID, 1} :
                entity = [NewEntity("EncodedString", loc, size) EXCEPT !.offset = offset]
          \/ \E frame_id \in {UNUSED, 7} : \E stack_offset \in {UNUSED, 8} :
             \E given \in BOOLEAN :
                entity = [NewEntity("EncodedStackString", INVALID, size)
                             EXCEPT !.frame_id = frame_id,
                                    !.stack_offset = stack_offset,
                                    !.encoded_type = IF given THEN "str" ELSE @,
                                    !.encoded_data = IF given THEN <<65>> ELSE @]
    /\ pc = "new"
    /\ host = "none"
    /\ index = 0
    /\ encoded_strings = <<>>
    /\ decoded_strings = <<>>
    /\ TokenizerIdle
    /\ Quiet
    /\ TesterIdle

PatchNext == assign_decoded_data \/ entity_patch

PatchSpec == PatchInit /\ [][PatchNext]_vars

\* -------------------------------------------------------------- get_bytes()
\* entity.get_bytes(), lines 410-427 and 587-596, called on the entity: the log
\* tells what came back (a str, INVALID) or that ValueError was raised
entity_get_bytes ==
    /\ pc \in {"new", "decoded"}
    /\ \E bytes \in {get_bytes(entity.cls, entity.string_location, entity.size)} :
          /\ log' = Append(log, Event("get_bytes", bytes.type, Len(bytes.data)))
          /\ IF bytes.type = "ValueError"
             THEN /\ outcome' = Raises("ValueError")
                  /\ pc' = "get_bytes raised"
             ELSE /\ outcome' = Returns(bytes.data)
                  /\ pc' = "get_bytes returned"
    /\ UNCHANGED <<entity, results, tokenizer, idb, host, matches, funcs, index, lists,
                   globals, tester>>

BytesNext == assign_decoded_data \/ entity_get_bytes

\* the entities of PatchInit, asked for their bytes before or after a decoder
\* worked on them
BytesSpec == PatchInit /\ [][BytesNext]_vars

\* ------------------------------------------------------ string_decoder_main
\* hexdigest() of the file next to the database, or no such file
LocalFiles == {"absent", "d41d", "0cc1"}

\* str.upper() of a digest
Upper(digest) ==
    IF digest = "d41d" THEN "D41D" ELSE IF digest = "0cc1" THEN "0CC1" ELSE digest

\* (mutant of SameFile: any file, or none, passes for the input file)
SameFileAlways(local, md5) == TRUE

\* lines 1102-1103: the local file exists and its MD5 is the recorded one
SameFile(local, md5) == local # "absent" /\ Upper(local) = md5

\* lines 1150-1153
string_decoder_main_begin ==
    /\ pc = "string_decoder_main"
    /\ IF host.run.extends
       THEN /\ pc' = "find_input_file"
            /\ UNCHANGED <<log, outcome>>
       ELSE /\ log' = Append(log, Event("append_debug", "Tracer does not extend StringTracer!", 0))
            /\ outcome' = ReturnsNone
            /\ pc' = "string_decoder_main returned"
    /\ UNCHANGED <<entity, results, tokenizer, idb, host, matches, funcs, index, lists,
                   globals, tester>>

\* lines 1096-1110; whether the recorded path exists and what lies next to the
\* database are the file system's
find_input_file ==
    /\ pc = "find_input_file"
    /\ \E exists \in BOOLEAN :
          IF exists
          THEN /\ log' = Append(log, Event("os.path.exists", INPUT_FILE_PATH, 1))
               /\ pc' = "find_input_file returned True"
               /\ UNCHANGED INPUT_FILE_PATH
          ELSE \E local \in LocalFiles :
                  LET looked == <<Event("os.path.exists", INPUT_FILE_PATH, 0)>>
                                    \o (IF local = "absent"
                                        THEN <<Event("os.path.exists", "local path", 0)>>
                                        ELSE <<Event("os.path.exists", "local path", 1),
                                               Event("md5", Upper(local), 0)>>)
                  IN  IF SameFile(local, host.run.md5)
                      THEN /\ INPUT_FILE_PATH' = "local path"
                           /\ log' = looked
                                        \o <<Event("append_debug", "Guessed the input file path", 0),
                                             Event("append_debug", "IDA thought it was", 0)>>
                           /\ pc' = "find_input_file returned True"
                      ELSE /\ log' = looked
                           /\ pc' = "find_input_file returned False"
                           /\ UNCHANGED INPUT_FILE_PATH
    /\ UNCHANGED <<entity, results, tokenizer, idb, host, matches, funcs, index, lists,
                   outcome, ENCODED_STRINGS, YARA_MATCHES, tester>>

\* lines 1156-1162
string_decoder_main_located ==
    /\ \/ /\ pc = "find_input_file returned False"
          /\ log' = Append(log, Event("append_debug", "Unable to locate the file", 0))
          /\ outcome' = ReturnsNone
          /\ pc' = "string_decoder_main returned"
       \/ /\ pc = "find_input_file returned True"
          /\ pc' = IF host.run.inline THEN "generic_run_yara" ELSE "yara_find_decode_functions"
          /\ UNCHANGED <<log, outcome>>
    /\ UNCHANGED <<entity, results, tokenizer, idb, host, matches, funcs, index, lists,
                   globals, tester>>

\* what the callback collects from a match: up to n hits, an address that is
\* in no loaded item being BADADDR (lines 940-942)
Hits(n) ==
    UNION {{[i \in 1..k |-> [ea |-> IF bad[i] THEN BADADDR ELSE 256 + i, identifier |-> "$hit"]]
               : bad \in [1..k -> BOOLEAN]} : k \in 0..n}

\* the record of a run of the Pattern Matcher
Matching(matched, hits) ==
    Event("yara.match", IF matched THEN "matched" ELSE "no match", Len(hits))

\* generic_run_yara, lines 960-964, and the call of line 1164 that takes its
\* result: a rule that did not match has no hits, and the list is returned
\* whatever it holds
generic_run_yara ==
    /\ pc = "generic_run_yara"
    /\ \E matched \in BOOLEAN : \E hits \in Hits(MaxHits) :
          /\ ~matched => hits = <<>>
          /\ YARA_MATCHES' = hits
          /\ matches' = hits
          /\ log' = Append(log, Matching(matched, hits))
    /\ index' = 0
    /\ encoded_strings' = <<>>
    /\ pc' = "find_encoded_strings_inline"
    /\ UNCHANGED <<entity, results, tokenizer, idb, host, funcs, decoded_strings, string_list,
                   outcome, INPUT_FILE_PATH, ENCODED_STRINGS, tester>>

\* yara_find_decode_functions, lines 986-992: a rule that did not match has no
\* hits, one that matched has any
yara_find_decode_functions ==
    /\ pc = "yara_find_decode_functions"
    /\ \E matched \in BOOLEAN : \E hits \in Hits(MaxHits) :
          /\ ~matched => hits = <<>>
          /\ YARA_MATCHES' = hits
          /\ log' = Append(log, Matching(matched, hits))
          /\ IF matched
             THEN /\ pc' = "make_superfunc_t_from_matches"
                  /\ UNCHANGED outcome
             ELSE /\ outcome' = Raises("RuntimeError")
                  /\ pc' = "yara_find_decode_functions raised"
    /\ index' = 0
    /\ funcs' = <<>>
    /\ UNCHANGED <<entity, results, tokenizer, idb, host, matches, lists,
                   INPUT_FILE_PATH, ENCODED_STRINGS, tester>>

\* lines 1007-1014: one pass of the loop.  SuperFunc_t(ea, identifier), lines
\* 64-85: the address lies in the k-th function (found by get_func, or created
\* by create_function_precise), or in none (k = 0) and AttributeError is raised.
\* A function has idb.callers callers.  decode_funcs is a set: a function is
\* held once.
make_superfunc_t_from_matches_step ==
    /\ pc = "make_superfunc_t_from_matches"
    /\ index < Len(YARA_MATCHES)
    /\ LET ea == YARA_MATCHES[index + 1].ea
       IN  IF ea = BADADDR
           THEN /\ index' = index + 1
                /\ UNCHANGED <<pc, funcs, log, outcome>>
           ELSE \E k \in 0..MaxHits :
                   IF k = 0
                   THEN /\ log' = Append(log, Event("SuperFunc_t", "AttributeError", ea))
                        /\ outcome' = Raises("AttributeError")
                        /\ pc' = "make_superfunc_t_from_matches raised"
                        /\ UNCHANGED <<index, funcs>>
                   ELSE LET named == host.run.func_name # "None"
                            func == [SuperFuncAt(k, idb.callers) EXCEPT
                                        !.name = IF named THEN host.run.func_name ELSE @]
                        IN  /\ log' = log
                                     \o <<Event("SuperFunc_t", "constructed", ea)>>
                                     \o (IF named
                                         THEN <<Event("do_name_anyway", host.run.func_name,
                                                      func.startEA)>>
                                         ELSE <<>>)
                            /\ funcs' = IF \E i \in 1..Len(funcs) : funcs[i] = func
                                        THEN funcs ELSE Append(funcs, func)
                            /\ index' = index + 1
                            /\ UNCHANGED <<pc, outcome>>
    /\ UNCHANGED <<entity, results, tokenizer, idb, host, matches, lists, globals, tester>>

\* line 1015, list(decode_funcs), in whatever order the set gives, line 992, and
\* the call of line 1167 that takes the result
make_superfunc_t_from_matches_return ==
    /\ pc = "make_superfunc_t_from_matches"
    /\ index = Len(YARA_MATCHES)
    /\ \E order \in {o \in [1..Len(funcs) -> 1..Len(funcs)] :
                         \A i, j \in 1..Len(funcs) : i # j => o[i] # o[j]} :
          funcs' = [i \in 1..Len(funcs) |-> funcs[order[i]]]
    /\ index' = 0
    /\ encoded_strings' = <<>>
    /\ pc' = "find_encoded_strings"
    /\ UNCHANGED <<entity, results, tokenizer, idb, log, host, matches, decoded_strings,
                   string_list, outcome, globals, tester>>

\* lines 1164 and 1167-1168: the driver's list is kept in ENCODED_STRINGS and
\* handed to decode_strings
string_decoder_main_found ==
    /\ pc \in {"find_encoded_strings_inline returned", "find_encoded_strings returned"}
    /\ ENCODED_STRINGS' = outcome.value
    /\ encoded_strings' = outcome.value
    /\ decoded_strings' = <<>>
    /\ index' = 0
    /\ pc' = "decode_strings"
    /\ UNCHANGED <<entity, results, tokenizer, idb, log, host, matches, funcs, string_list,
                   outcome, INPUT_FILE_PATH, YARA_MATCHES, tester>>

\* lines 1168-1169: the decoded list is kept in ENCODED_STRINGS and handed to
\* output_strings, whose other arguments have their defaults
string_decoder_main_decoded ==
    /\ pc = "decode_strings returned"
    /\ ENCODED_STRINGS' = outcome.value
    /\ decoded_strings' = outcome.value
    /\ host' = [host EXCEPT !.decoded_strings = outcome.value]
    /\ pc' = "output_strings"
    /\ UNCHANGED <<entity, results, tokenizer, idb, log, matches, funcs, index,
                   encoded_strings, string_list, outcome, INPUT_FILE_PATH, YARA_MATCHES, tester>>

\* the entities of a list after output_strings worked on those it kept: they are
\* the same objects, so the codec recorded for a kept one shows in the list
Processed(list, kept) ==
    [i \in 1..Len(list) |->
        IF \A j \in 1..(i - 1) : compare_key(list[j]) # compare_key(list[i])
        THEN CHOOSE e \in {kept[k] : k \in 1..Len(kept)} : compare_key(e) = compare_key(list[i])
        ELSE list[i]]

\* line 1070, sorted(decoded_strings, key=string_location): a stable sort
RECURSIVE InsertByLocation(_, _)
InsertByLocation(sorted, e) ==
    IF sorted = <<>> THEN <<e>>
    ELSE IF e.string_location < sorted[Len(sorted)].string_location
         THEN Append(InsertByLocation(SubSeq(sorted, 1, Len(sorted) - 1), e),
                     sorted[Len(sorted)])
         ELSE Append(sorted, e)

RECURSIVE SortedByLocation(_, _)
SortedByLocation(list, sorted) ==
    IF list = <<>> THEN sorted
    ELSE SortedByLocation(Tail(list), InsertByLocation(sorted, list[1]))

\* lines 1169-1172: with patch, patch_decoded is called on ENCODED_STRINGS;
\* without, the texts are returned
string_decoder_main_output ==
    /\ pc = "output_strings returned"
    /\ ENCODED_STRINGS' = Processed(ENCODED_STRINGS, decoded_strings)
    /\ IF host.run.patch
       THEN /\ decoded_strings' = SortedByLocation(ENCODED_STRINGS', <<>>)
            /\ index' = 0
            /\ pc' = "patch_decoded"
            /\ UNCHANGED outcome
       ELSE /\ outcome' = Returns(string_list)
            /\ pc' = "string_decoder_main returned"
            /\ UNCHANGED <<decoded_strings, index>>
    /\ UNCHANGED <<entity, results, tokenizer, idb, log, host, matches, funcs,
                   encoded_strings, string_list, INPUT_FILE_PATH, YARA_MATCHES, tester>>

\* lines 1070-1071: one pass of the loop of patch_decoded
patch_decoded_step ==
    /\ pc = "patch_decoded"
    /\ index < Len(decoded_strings)
    /\ \E decoded_string \in {decoded_strings[index + 1]} :
       \E patching \in {patch(decoded_string)} :
          /\ log' = Append(log, Event("patch", decoded_string.cls, index + 1))
                       \o patching.events
          /\ idb' = [idb EXCEPT !.image = patching.image]
    /\ index' = index + 1
    /\ UNCHANGED <<entity, pc, results, tokenizer, host, matches, funcs, lists, outcome,
                   globals, tester>>

\* the end of patch_decoded, and line 1172
patch_decoded_return ==
    /\ pc = "patch_decoded"
    /\ index = Len(decoded_strings)
    /\ outcome' = Returns(string_list)
    /\ pc' = "string_decoder_main returned"
    /\ UNCHANGED <<entity, results, tokenizer, idb, log, host, matches, funcs, index,
                   lists, globals, tester>>

\* lines 1173-1175: RuntimeError is the one exception the run handles
string_decoder_main_except ==
    /\ pc = "yara_find_decode_functions raised"
    /\ log' = Append(log, Event("append_debug", "The provided YARA rule failed to match", 0))
    /\ outcome' = ReturnsNone
    /\ pc' = "string_decoder_main returned"
    /\ UNCHANGED <<entity, results, tokenizer, idb, host, matches, funcs, index, lists,
                   globals, tester>>

\* any other exception leaves the try statement of lines 1161-1175 and the run
string_decoder_main_raise ==
    /\ pc \in {"make_superfunc_t_from_matches raised", "output_strings raised"}
    /\ pc' = "string_decoder_main raised"
    /\ UNCHANGED <<entity, results, tokenizer, pipeline, tester>>

\* string_decoder_main is called: with a Tracer that extends StringTracer or
\* not, inline or not, with patch or not, with a func_name or None.  The host
\* recorded the path and the MD5 of the input file.
EngineInit ==
    /\ \E extends \in BOOLEAN : \E inline \in BOOLEAN : \E patching \in BOOLEAN :
       \E func_name \in {"None", "string_decode_function"} :
          host = [run |-> [extends |-> extends, inline |-> inline, patch |-> patching,
                           func_name |-> func_name, path |-> "recorded path",
                           md5 |-> "D41D"],
                  decoded_strings |-> <<>>,
                  dedup |-> TRUE, rename |-> TRUE, patch |-> FALSE]
    /\ INPUT_FILE_PATH = "recorded path"
    /\ ENCODED_STRINGS = <<>>
    /\ YARA_MATCHES = <<>>
    /\ pc = "string_decoder_main"
    /\ idb = [image |-> ImageOfLetters(1).image, xrefs |-> {}, callers |-> 1]
    /\ index = 0
    /\ matches = <<>>
    /\ funcs = <<>>
    /\ encoded_strings = <<>>
    /\ decoded_strings = <<>>
    /\ string_list = <<>>
    /\ log = <<>>
    /\ outcome = NoOutcome
    /\ entity = NewEntity("EncodedString", INVALID, INVALID)
    /\ TokenizerIdle
    /\ TesterIdle

EngineNext ==
    \/ string_decoder_main_begin
    \/ find_input_file
    \/ string_decoder_main_located
    \/ generic_run_yara
    \/ yara_find_decode_functions
    \/ make_superfunc_t_from_matches_step
    \/ make_superfunc_t_from_matches_return
    \/ find_encoded_strings_inline
    \/ find_encoded_strings
    \/ string_decoder_main_found
    \/ decode_strings
    \/ string_decoder_main_decoded
    \/ output_strings
    \/ string_decoder_main_output
    \/ patch_decoded_step
    \/ patch_decoded_return
    \/ string_decoder_main_except
    \/ string_decoder_main_raise

EngineSpec == EngineInit /\ [][EngineNext]_vars

\* string_decoder_main is called in xref-driven mode on a database whose
\* functions have two callers each, so that a run has two candidates
BatchInit ==
    /\ host = [run |-> [extends |-> TRUE, inline |-> FALSE, patch |-> TRUE,
                        func_name |-> "string_decode_function", path |-> "recorded path",
                        md5 |-> "D41D"],
               decoded_strings |-> <<>>,
               dedup |-> TRUE, rename |-> TRUE, patch |-> FALSE]
    /\ INPUT_FILE_PATH = "recorded path"
    /\ ENCODED_STRINGS = <<>>
    /\ YARA_MATCHES = <<>>
    /\ pc = "string_decoder_main"
    /\ idb = [image |-> ImageOfLetters(1).image, xrefs |-> {}, callers |-> 2]
    /\ index = 0
    /\ matches = <<>>
    /\ funcs = <<>>
    /\ encoded_strings = <<>>
    /\ decoded_strings = <<>>
    /\ string_list = <<>>
    /\ log = <<>>
    /\ outcome = NoOutcome
    /\ entity = NewEntity("EncodedString", INVALID, INVALID)
    /\ TokenizerIdle
    /\ TesterIdle

BatchNext ==
    \/ string_decoder_main_begin
    \/ find_input_file
    \/ string_decoder_main_located
    \/ yara_find_decode_functions
    \/ make_superfunc_t_from_matches_step
    \/ make_superfunc_t_from_matches_return
    \/ find_encoded_strings
    \/ string_decoder_main_found
    \/ decode_strings
    \/ string_decoder_main_decoded
    \/ output_strings
    \/ string_decoder_main_output
    \/ patch_decoded_step
    \/ patch_decoded_return
    \/ string_decoder_main_except
    \/ string_decoder_main_raise

BatchSpec == BatchInit /\ [][BatchNext]_vars

\* line 40: DECODED_STRINGS is declared global in string_decoder_main (line
\* 1148) and never assigned
DECODED_STRINGS == <<>>

\* lines 663-665
get_encoded_strings == ENCODED_STRINGS

\* lines 668-670
get_decoded_strings == DECODED_STRINGS

\* The arguments of the runs of one process: the first run is inline, the
\* later ones are xref-driven and may be given a Tracer that is no
\* StringTracer.
RunArguments(number) ==
    {[number |-> number, extends |-> extends, inline |-> number = 1, patch |-> number = 1,
      func_name |-> "None", path |-> "recorded path", md5 |-> "D41D"]
        : extends \in IF number = 1 THEN {TRUE} ELSE BOOLEAN}

\* string_decoder_main is called again in the same process: the module's
\* globals and the database are what the earlier run left, the locals are new
\* and the log is the new run's
string_decoder_main_again ==
    /\ pc \in {"string_decoder_main returned", "string_decoder_main raised"}
    /\ host.run.number < MaxRuns
    /\ \E run \in RunArguments(host.run.number + 1) :
          host' = [run |-> run, decoded_strings |-> <<>>,
                   dedup |-> TRUE, rename |-> TRUE, patch |-> FALSE]
    /\ pc' = "string_decoder_main"
    /\ index' = 0
    /\ matches' = <<>>
    /\ funcs' = <<>>
    /\ encoded_strings' = <<>>
    /\ decoded_strings' = <<>>
    /\ string_list' = <<>>
    /\ log' = <<>>
    /\ outcome' = NoOutcome
    /\ UNCHANGED <<entity, results, tokenizer, idb, globals, tester>>

\* the first run of a process
RunsInit ==
    /\ \E run \in RunArguments(1) :
          host = [run |-> run, decoded_strings |-> <<>>,
                  dedup |-> TRUE, rename |-> TRUE, patch |-> FALSE]
    /\ INPUT_FILE_PATH = "recorded path"
    /\ ENCODED_STRINGS = <<>>
    /\ YARA_MATCHES = <<>>
    /\ pc = "string_decoder_main"
    /\ idb = [image |-> ImageOfLetters(1).image, xrefs |-> {}, callers |-> 1]
    /\ index = 0
    /\ matches = <<>>
    /\ funcs = <<>>
    /\ encoded_strings = <<>>
    /\ decoded_strings = <<>>
    /\ string_list = <<>>
    /\ log = <<>>
    /\ outcome = NoOutcome
    /\ entity = NewEntity("EncodedString", INVALID, INVALID)
    /\ TokenizerIdle
    /\ TesterIdle

RunsNext == EngineNext \/ string_decoder_main_again

RunsSpec == RunsInit /\ [][RunsNext]_vars
\* -------------------------------------------------------------- SuperFunc_t
\* the cross-references the Binary Context may hold to the start of a function:
\* from inside the function itself, from another function, from outside every
\* function (func is the name get_func_name gives for the address)
XrefsTo(name) ==
    {[frm |-> 261, func |-> name], [frm |-> 768, func |-> "other"], [frm |-> 1024, func |-> ""]}

\* every list of up to n items of S
ListsUpTo(S, n) == UNION {[1..k -> S] : k \in 0..n}

\* lines 82-83: the list comprehension over XrefsTo(startEA)
NonRecursive(xrefs, name) ==
    LET kept == SelectSeq(xrefs, LAMBDA ref : ref.func # name)
    IN  [i \in 1..Len(kept) |-> kept[i].frm]

\* SuperFunc_t(ea, identifier), lines 64-85: the function is found by get_func,
\* created by create_function_precise, or there is none
SuperFunc_t_init ==
    /\ pc = "SuperFunc_t"
    /\ IF host.function = "none"
       THEN /\ outcome' = Raises("AttributeError")
            /\ pc' = "SuperFunc_t raised"
            /\ UNCHANGED <<funcs, log>>
       ELSE /\ funcs' = <<[SuperFuncAt(1, 0) EXCEPT
                               !.name = idb.name,
                               !.xrefs_to = NonRecursive(host.xrefs, idb.name)]>>
            /\ log' = IF host.function = "created"
                      THEN Append(log, Event("append_debug", "Created function", host.ea))
                      ELSE log
            /\ pc' = "constructed"
            /\ UNCHANGED outcome
    /\ UNCHANGED <<entity, results, tokenizer, idb, host, matches, index, lists, globals, tester>>

\* the name the host resolves a wanted name to: a name that exists elsewhere is
\* adjusted
Resolve(new_name) == IF new_name = "printf" THEN "printf_0" ELSE new_name

\* rename(new_name), lines 115-136; whether set_name or do_name_anyway succeeds
\* is the host's
SuperFunc_t_rename ==
    /\ pc = "constructed"
    /\ Len(EventsOf(log, "SuperFunc_t.rename")) < MaxRenames
    /\ \E new_name \in {"", "decode", "printf"} : \E done \in BOOLEAN :
          LET called == Event("SuperFunc_t.rename", new_name, IF done THEN 1 ELSE 0)
              start == funcs[1].startEA
          IN  IF new_name = ""
              THEN IF done
                   THEN /\ idb' = [idb EXCEPT !.name = "sub_100"]
                        /\ log' = Append(log, called)
                        /\ UNCHANGED funcs
                   ELSE /\ log' = log \o <<called,
                                            Event("append_debug", "Failed to reset name", start)>>
                        /\ UNCHANGED <<idb, funcs>>
              ELSE IF done
                   THEN /\ idb' = [idb EXCEPT !.name = Resolve(new_name)]
                        /\ funcs' = [funcs EXCEPT ![1].name = Resolve(new_name)]
                        /\ log' = log \o <<called>>
                                       \o (IF Resolve(new_name) # new_name
                                           THEN <<Event("append_debug", "IDA changed name",
                                                        start)>>
                                           ELSE <<>>)
                   ELSE /\ log' = log \o <<called,
                                            Event("append_debug", "Failed to rename", start)>>
                        /\ UNCHANGED <<idb, funcs>>
    /\ UNCHANGED <<entity, pc, results, tokenizer, host, matches, index, lists, outcome,
                   globals, tester>>

\* a SuperFunc_t is built for an address; the Binary Context holds the function
\* (or none), its name and up to MaxXrefs cross-references to its start, an
\* address possibly more than once
LocatorInit ==
    /\ \E function \in {"found", "created", "none"} :
       \E xrefs \in ListsUpTo(XrefsTo("sub_100"), MaxXrefs) :
          host = [ea |-> 260, function |-> function, xrefs |-> xrefs]
    /\ idb = [image |-> <<>>, xrefs |-> {}, name |-> "sub_100"]
    /\ pc = "SuperFunc_t"
    /\ index = 0
    /\ encoded_strings = <<>>
    /\ decoded_strings = <<>>
    /\ entity = NewEntity("EncodedString", INVALID, INVALID)
    /\ TokenizerIdle
    /\ Quiet
    /\ TesterIdle

LocatorNext == SuperFunc_t_init \/ SuperFunc_t_rename

LocatorSpec == LocatorInit /\ [][LocatorNext]_vars

\* ======================================================================
\* Test case support (kordesiitester.py)
\* ======================================================================

\* the decoder and the engine are not at work
EngineIdle ==
    /\ entity = NewEntity("EncodedString", INVALID, INVALID)
    /\ idb = [image |-> <<>>, xrefs |-> {}]
    /\ results = <<>>
    /\ TokenizerIdle
    /\ Quiet
    /\ index = 0
    /\ encoded_strings = <<>>
    /\ decoded_strings = <<>>

\* ------------------------------------------------------ ResultComparison
\* lines 422-424
PASS == "Pass"
FAIL == "Fail"
SUPERSET == "Fail - Superset"

\* the items of a result list: strings, the empty one included
Items == {<<>>, <<65>>, <<66>>}

\* the result lists handed to compare
ItemLists == UNION {[1..k -> Items] : k \in 0..MaxItems}

\* item in list
In(item, list) == \E i \in 1..Len(list) : list[i] = item

\* (mutant of Differences: the empty items are compared like the others)
DifferencesWithEmpty(from, other) == SelectSeq(from, LAMBDA item : ~In(item, other))

\* lines 435-437 and 439-441: the non-empty items of one list that are not in
\* the other, in the order of the list
Differences(from, other) ==
    SelectSeq(from, LAMBDA item : Len(item) > 0 /\ ~In(item, other))

\* lines 426-430: __init__
ResultComparison_init(field) ==
    [field |-> field, code |-> FAIL, missing |-> <<>>, unexpected |-> <<>>]

\* lines 432-448: compare appends to missing and unexpected and sets code
compare ==
    /\ pc \in {"ResultComparison", "compare returned",
               "passed returned True", "passed returned False"}
    /\ host.compares < MaxCompares
    /\ \E test_case_results \in ItemLists :
       \E new_results \in ItemLists :
          /\ host' = [compares |-> host.compares + 1,
                      test_case_results |-> test_case_results,
                      new_results |-> new_results]
          /\ \E missing \in {comparer.missing \o Differences(test_case_results, new_results)} :
             \E unexpected \in {comparer.unexpected
                                   \o Differences(new_results, test_case_results)} :
                comparer' = [comparer EXCEPT
                                !.missing = missing,
                                !.unexpected = unexpected,
                                !.code = IF missing # <<>> THEN FAIL
                                         ELSE IF unexpected # <<>> THEN SUPERSET
                                         ELSE PASS]
    /\ pc' = "compare returned"
    /\ UNCHANGED <<entity, results, tokenizer, idb, log, matches, funcs, index, lists,
                   outcome, globals, results_file>>

\* lines 450-456
passed ==
    /\ pc \in {"ResultComparison", "compare returned"}
    /\ pc' = IF comparer.code \in {FAIL, SUPERSET}
             THEN "passed returned False"
             ELSE "passed returned True"
    /\ UNCHANGED <<entity, results, tokenizer, pipeline, tester>>

\* a StringsComparison was constructed (lines 490-492)
ComparisonInit ==
    /\ EngineIdle
    /\ host = [compares |-> 0, test_case_results |-> <<>>, new_results |-> <<>>]
    /\ comparer = ResultComparison_init("strings")
    /\ results_file = "none"
    /\ pc = "ResultComparison"

ComparisonNext == compare \/ passed

ComparisonSpec == ComparisonInit /\ [][ComparisonNext]_vars

\* -------------------------------------------------- update_test_results
\* the input files of the test cases
InputFiles == {"a.exe", "b.exe", "c.exe"}

\* the metadata dictionaries update_test_results is handed: the results of one
\* run for one input file, under the key INPUT_FILE_PATH = "input_file" (line 46)
ResultsData == [input_file : InputFiles, results : {<<65>>, <<66>>}]

\* no file is at results_file_path
AbsentFile == [isfile |-> FALSE, json |-> FALSE, records |-> <<>>]

\* a file of no bytes
EmptyFile == [isfile |-> TRUE, json |-> FALSE, records |-> <<>>]

\* lines 144-146: the file is written anew with the JSON document of the list
\* (reporter.pprint is not part of this source; it is taken to write the list
\* so that json.load gives it back)
Written(results_file_data) ==
    [isfile |-> TRUE, json |-> TRUE, records |-> results_file_data]

\* lines 124-132: the index (from 1) of the first record of the same input file
\* path, 0 when there is none
Duplicate(results_file_data, results_data) ==
    LET same == {i \in 1..Len(results_file_data) :
                    results_file_data[i].input_file = results_data.input_file}
    IN  IF same = {} THEN 0 ELSE CHOOSE i \in same : \A j \in same : i <= j

\* lines 106-146
update_test_results ==
    /\ pc \in {"kordesiitester", "update_test_results returned",
               "update_test_results raised"}
    /\ host.updates < MaxUpdates
    /\ \E results_data \in ResultsData :
       \E replace \in BOOLEAN :
          /\ host' = [updates |-> host.updates + 1, results_data |-> results_data,
                      replace |-> replace]
          /\ IF results_file.isfile
             THEN IF ~results_file.json
                  \* lines 97-98: json.load raises on a file that holds no JSON document
                  THEN /\ outcome' = Raises("ValueError")
                       /\ pc' = "update_test_results raised"
                       /\ UNCHANGED results_file
                  ELSE \E found \in {Duplicate(results_file.records, results_data)} :
                          /\ results_file' =
                                Written(IF found = 0
                                        THEN Append(results_file.records, results_data)
                                        ELSE IF replace
                                             THEN [results_file.records
                                                      EXCEPT ![found] = results_data]
                                             ELSE results_file.records)
                          /\ outcome' = ReturnsNone
                          /\ pc' = "update_test_results returned"
             ELSE /\ results_file' = Written(<<results_data>>)
                  /\ outcome' = ReturnsNone
                  /\ pc' = "update_test_results returned"
    /\ UNCHANGED <<entity, results, tokenizer, idb, log, matches, funcs, index, lists,
                   globals, comparer>>

\* a kordesiitester and the results file of one decoder, which starts absent,
\* empty or holding an empty list
ResultsFileInit ==
    /\ entity = NewEntity("EncodedString", INVALID, INVALID)
    /\ idb = [image |-> <<>>, xrefs |-> {}]
    /\ results = <<>>
    /\ TokenizerIdle
    /\ log = <<>>
    /\ outcome = NoOutcome
    /\ string_list = <<>>
    /\ matches = <<>>
    /\ funcs = <<>>
    /\ INPUT_FILE_PATH = "none"
    /\ ENCODED_STRINGS = <<>>
    /\ YARA_MATCHES = <<>>
    /\ index = 0
    /\ encoded_strings = <<>>
    /\ decoded_strings = <<>>
    /\ host = [updates |-> 0]
    /\ comparer = "none"
    /\ results_file \in {AbsentFile, EmptyFile, Written(<<>>)}
    /\ pc = "kordesiitester"

ResultsFileNext == update_test_results

ResultsFileSpec == ResultsFileInit /\ [][ResultsFileNext]_vars

\* ======================================================================
\* Properties of split_decoded_string
\* ======================================================================
Returned == pc = "returned"

SizeIsLength == entity.size = Len(entity.decoded_data)

\* s without its last element
ButLast(s) == SubSeq(s, 1, Len(s) - 1)

\* the strings of a buffer of null-terminated single-byte strings
RECURSIVE SplitAtNulls(_)
SplitAtNulls(d) ==
    IF d = <<>> THEN <<>>
    ELSE LET k == CHOOSE i \in 1..Len(d) : d[i] = NUL /\ \A j \in 1..(i - 1) : d[j] # NUL
         IN  <<SubSeq(d, 1, k - 1)>> \o SplitAtNulls(SubSeq(d, k + 1, Len(d)))

\* one or more non-empty strings of non-null bytes, each followed by one null
IsSingleByteBuffer(d) ==
    /\ Len(d) >= 1
    /\ d[1] # NUL
    /\ d[Len(d)] = NUL
    /\ \A i \in 1..(Len(d) - 1) : ~(d[i] = NUL /\ d[i + 1] = NUL)

\* a non-empty string of two-byte characters whose high (second) byte is null
IsWideString(s) ==
    /\ Len(s) >= 2
    /\ Len(s) % 2 = 0
    /\ \A i \in 1..Len(s) : IF i % 2 = 1 THEN s[i] # NUL ELSE s[i] = NUL

\* the strings of a buffer of double-null-terminated double-byte strings (a
\* part that has no terminator comes out as the string <<NUL>>, which is not wide)
RECURSIVE WideStrings(_)
WideStrings(d) ==
    IF d = <<>> THEN <<>>
    ELSE LET ends == {k \in 1..(Len(d) - 1) : k % 2 = 1 /\ d[k] = NUL /\ d[k + 1] = NUL}
         IN  IF ends = {} THEN << <<NUL>> >>
             ELSE LET k == CHOOSE i \in ends : \A j \in ends : i <= j
                  IN  <<SubSeq(d, 1, k - 1)>> \o WideStrings(SubSeq(d, k + 2, Len(d)))

IsDoubleByteBuffer(d) ==
    /\ d # <<>>
    /\ \A i \in 1..Len(WideStrings(d)) : IsWideString(WideStrings(d)[i])

\* the decoded data of list[i..], each followed by a double null
RECURSIVE JoinDoubleNull(_, _)
JoinDoubleNull(list, i) ==
    IF i > Len(list) THEN <<>>
    ELSE list[i].decoded_data \o <<NUL, NUL>> \o JoinDoubleNull(list, i + 1)

\* d is a double-byte string of w bytes and its double null, then a single-byte
\* string of s1 bytes and its null, then a single-byte string and its null
IsMixedBuffer(d, w, s1) ==
    /\ w >= 2
    /\ s1 >= 1
    /\ Len(d) >= w + 2 + s1 + 1 + 2
    /\ IsWideString(SubSeq(d, 1, w))
    /\ d[w + 1] = NUL /\ d[w + 2] = NUL
    /\ IsSingleByteBuffer(SubSeq(d, w + 3, Len(d)))
    /\ Len(SplitAtNulls(SubSeq(d, w + 3, Len(d)))) = 2
    /\ Len(SplitAtNulls(SubSeq(d, w + 3, Len(d)))[1]) = s1

\* C1: for a buffer of one or more non-empty single-byte strings, each followed by
\* one null (size = buffer length), split_decoded_string returns one entity per
\* string, and the results without their re-added null are the strings, in order.
C1_SingleByteRoundTrip ==
    (Returned /\ SizeIsLength /\ IsSingleByteBuffer(entity.decoded_data)
        /\ entity.cls = "EncodedString") =>
        LET strings == SplitAtNulls(entity.decoded_data)
        IN  /\ Len(results) = Len(strings)
            /\ \A i \in 1..Len(results) : ButLast(results[i].decoded_data) = strings[i]

\* C2: for a buffer of one or more non-empty double-byte strings, each terminated
\* by a double null, split_decoded_string returns one entity per string, and the
\* results joined on double nulls are the buffer: the same strings in order.
C2_DoubleByteRoundTrip ==
    (Returned /\ SizeIsLength /\ IsDoubleByteBuffer(entity.decoded_data)) =>
        LET strings == WideStrings(entity.decoded_data)
        IN  /\ Len(results) = Len(strings)
            /\ \A i \in 1..Len(results) : results[i].decoded_data = strings[i]
            /\ JoinDoubleNull(results, 1) = entity.decoded_data

\* C2 witness: a buffer of two double-byte strings has been split
C2_Witness ==
    /\ Returned /\ SizeIsLength
    /\ IsDoubleByteBuffer(entity.decoded_data)
    /\ Len(WideStrings(entity.decoded_data)) = 2
    /\ Len(results) = 2

\* C3: for a buffer of one double-byte string followed by two single-byte strings,
\* split_decoded_string returns three entities, and each entity's offset is the
\* index of the buffer at which its string starts.
C3_MixedBufferOffsets ==
    \A w \in 2..MaxLen : \A s1 \in 1..MaxLen :
        (Returned /\ SizeIsLength /\ IsMixedBuffer(entity.decoded_data, w, s1)) =>
            /\ Len(results) = 3
            /\ {results[i].offset : i \in 1..Len(results)} = {0, w + 2, w + 2 + s1 + 1}

\* C4: the returned list is in ascending order of the start position of each
\* substring in the buffer, for a located entity and for a stack-resident one.
C4_AscendingStart ==
    Returned =>
        \A i \in 1..Len(results) : \A j \in 1..Len(results) :
            i < j => results[i].offset < results[j].offset

\* C5: no returned entity spans a double-null section boundary: without its
\* re-added final null it is a contiguous slice of the buffer, at its offset,
\* that holds no two consecutive nulls.
C5_NoDoubleNullInside ==
    \A i \in 1..Len(results) :
        LET body == ButLast(results[i].decoded_data)
        IN  /\ results[i].decoded_data[Len(results[i].decoded_data)] = NUL
            /\ body = PySlice(entity.decoded_data, results[i].offset,
                              results[i].offset + Len(body))
            /\ FindDoubleNull(body) = -1

\* C5 witness: a buffer that holds a double null was split into several entities
C5_Witness ==
    /\ Returned
    /\ FindDoubleNull(entity.decoded_data) # -1
    /\ Len(results) >= 2

\* C6: an empty section and a section of nulls only yield no substring: a buffer
\* of nulls only (also a single null) yields nothing, and in a buffer that begins
\* with a double null no entity is produced for that empty first section.
C6_NullSectionsYieldNothing ==
    (Returned /\ SizeIsLength /\ Len(entity.decoded_data) >= 1) =>
        /\ (\A i \in 1..Len(entity.decoded_data) : entity.decoded_data[i] = NUL)
               => results = <<>>
        /\ FindDoubleNull(entity.decoded_data) = 0
               => \A i \in 1..Len(results) : results[i].offset >= 2


\* ======================================================================
\* Properties of decode_unknown_charset
\* ======================================================================
\* decode_unknown_charset has been called on decoded bytes
DetectedStr == Len(calls) >= 1 /\ entity.decoded_type = "str"

\* C7: the detector is deterministic: successive calls on the same entity return
\* the same text and leave the same recorded codec.
C7_Deterministic ==
    \A i \in 1..Len(calls) : \A j \in 1..Len(calls) :
        /\ calls[i].text = calls[j].text
        /\ calls[i].code_page = calls[j].code_page

\* C8: a codec recorded on the entity decodes the entity's full decoded bytes.
C8_RecordedCodecDecodes ==
    entity.code_page # "None" => Decode(entity.code_page, entity.decoded_data).ok

\* the candidates that decode, by their index in CODE_PAGES
Successful(data) == {i \in 1..Len(CODE_PAGES) : Candidate(CODE_PAGES[i], data).ok}

ScoreOf(data, i) == num_raw_bytes(Candidate(CODE_PAGES[i], data).text)

\* the successful candidate of lowest score, the first one among equals
FirstLowest(data) ==
    CHOOSE i \in Successful(data) :
        \A j \in Successful(data) :
            \/ ScoreOf(data, i) < ScoreOf(data, j)
            \/ ScoreOf(data, i) = ScoreOf(data, j) /\ i <= j

\* C9: full detection on non-empty bytes selects, among the candidates that
\* decode, the one of lowest score, the first in list order among equals: its
\* codec is recorded and its text returned.
C9_LowestScoreFirstWins ==
    (DetectedStr /\ entity.decoded_data # <<>>) =>
        /\ calls[1].code_page = CODE_PAGES[FirstLowest(entity.decoded_data)]
        /\ calls[1].text = Candidate(calls[1].code_page, entity.decoded_data).text

SevenBit(data) == \A i \in 1..Len(data) : data[i] < 128

\* one or more printable 7-bit bytes, then nulls only
PlainAscii(data) ==
    \E k \in 1..Len(data) :
        /\ \A i \in 1..k : data[i] >= 32 /\ data[i] <= 126
        /\ \A i \in (k + 1)..Len(data) : data[i] = NUL

\* C10 as claimed: for non-empty bytes that are all 7-bit the ASCII codec is
\* recorded, never a wide-byte codec.  (Stated for bytes that are not all null:
\* for those no codec at all is recorded, the case of C9.)
C10_SevenBitRecordsAscii ==
    (DetectedStr /\ SevenBit(entity.decoded_data)
        /\ \E i \in 1..Len(entity.decoded_data) : entity.decoded_data[i] # NUL) =>
        /\ entity.code_page = "ascii"
        /\ entity.code_page \notin WideCodecs

\* C10 as amended: for bytes that are one or more printable 7-bit bytes, followed
\* by null bytes or nothing, every call records the ASCII codec (never a
\* wide-byte one) and the first call returns the printable bytes as text.
C10_PlainAsciiRecordsAscii ==
    (DetectedStr /\ PlainAscii(entity.decoded_data)) =>
        /\ \A i \in 1..Len(calls) : calls[i].code_page = "ascii"
        /\ calls[1].text = RStripNull(entity.decoded_data)

\* C10 witness: printable bytes with trailing nulls that a wide-byte candidate
\* decodes too were detected as ASCII
C10_Witness ==
    /\ DetectedStr
    /\ PlainAscii(entity.decoded_data)
    /\ entity.decoded_data[Len(entity.decoded_data)] = NUL
    /\ Candidate("utf-16-le", entity.decoded_data).ok
    /\ entity.code_page = "ascii"

\* every wide-byte candidate fails on the data, its retries on trimmed data included
WideCandidatesFail(data) == \A cp \in WideCodecs : ~Candidate(cp, data).ok

\* C11: for non-empty decoded bytes on which every wide-byte candidate fails,
\* the last candidate, latin1, decodes to a non-empty text, and every call of
\* decode_unknown_charset returns a non-empty text and leaves a codec recorded
\* (not a wide-byte one).
C11_FallbackGivesText ==
    (DetectedStr /\ entity.decoded_data # <<>> /\ WideCandidatesFail(entity.decoded_data)) =>
        /\ Candidate("latin1", entity.decoded_data).ok
        /\ Candidate("latin1", entity.decoded_data).text # <<>>
        /\ \A i \in 1..Len(calls) :
               /\ calls[i].text # <<>>
               /\ calls[i].code_page \in {CODE_PAGES[k] : k \in 1..Len(CODE_PAGES)} \ WideCodecs

\* C11 witness: bytes that fail every wide-byte candidate, ascii and utf-8 too,
\* were detected through a single-byte code page
C11_Witness ==
    /\ DetectedStr
    /\ entity.decoded_data # <<>>
    /\ WideCandidatesFail(entity.decoded_data)
    /\ ~Candidate("ascii", entity.decoded_data).ok
    /\ ~Candidate("utf-8", entity.decoded_data).ok
    /\ calls[1].text # <<>>
    /\ entity.code_page # "None"


\* ======================================================================
\* Properties of the Encoded String Model
\* ======================================================================
\* the entity and the entities made from it
Entities == {entity} \cup {results[i] : i \in 1..Len(results)}

\* C12: for every entity of both variants, after construction, calc_size,
\* split_decoded_string and find_unrefd_encoded_strings, encoded_data is populated
\* if and only if size is known.
C12_EncodedIffSize ==
    \A e \in Entities : (e.encoded_type # "INVALID") <=> (e.size # INVALID)


\* ======================================================================
\* Properties of decode_strings
\* ======================================================================
\* the list positions the events of the given op are about, in order
ArgsOf(events, op) == [i \in 1..Len(EventsOf(events, op)) |-> EventsOf(events, op)[i].arg]

\* the numbers of a finite set, in ascending order
RECURSIVE InOrder(_)
InOrder(S) ==
    IF S = {} THEN <<>>
    ELSE LET last == CHOOSE m \in S : \A k \in S : m >= k
         IN  Append(InOrder(S \ {last}), last)

Resolved(i) == encoded_strings[i].encoded_type # "INVALID"

\* the decode result of the entity is bytes, and not none of them
NonEmpty(i) ==
    /\ encoded_strings[i].decoded_type = "str"
    /\ Len(encoded_strings[i].decoded_data) > 0

Passed(i) == Resolved(i) /\ NonEmpty(i)

\* C13: decode_strings returns exactly the input entities, in input order, whose
\* encoded bytes are resolved and whose decode result is not empty; decode_fn is
\* called for the resolved entities only, once each, in order (so every entity
\* after a skipped or dropped one is still processed); nothing but the decoded
\* data of an entity changes.
C13_DecodedAreResolvedAndNonEmpty ==
    pc = "decode_strings returned" =>
        LET n == Len(encoded_strings)
            kept == InOrder({i \in 1..n : Passed(i)})
        IN  /\ outcome.value = [k \in 1..Len(kept) |-> encoded_strings[kept[k]]]
            /\ ArgsOf(log, "decode") = InOrder({i \in 1..n : Resolved(i)})
            /\ n = Len(host)
            /\ \A i \in 1..n :
                   /\ [encoded_strings[i] EXCEPT !.decoded_type = "INVALID",
                                                 !.decoded_data = <<>>] = host[i]
                   /\ ~Resolved(i) => encoded_strings[i] = host[i]

\* C13 witness: a batch whose first entity is unresolved, whose second was
\* aborted by the decoder and whose third was decoded and returned alone
C13_Witness ==
    /\ pc = "decode_strings returned"
    /\ Len(encoded_strings) = 3
    /\ ~Resolved(1)
    /\ Resolved(2) /\ ~NonEmpty(2)
    /\ Passed(3)
    /\ outcome.value = <<encoded_strings[3]>>


\* ======================================================================
\* Properties of the discovery drivers
\* ======================================================================
DriverReturned ==
    pc \in {"find_encoded_strings_inline returned", "find_encoded_strings returned"}

\* the candidate addresses of the driver that was called, in order
Candidates ==
    IF pc = "find_encoded_strings_inline returned"
    THEN [i \in 1..Len(matches) |-> matches[i].ea]
    ELSE [i \in 1..Len(XrefsOf(funcs, 1)) |-> XrefsOf(funcs, 1)[i].ea]

\* the string lists of the given search() events, concatenated in order
RECURSIVE StringsOf(_, _)
StringsOf(searches, i) ==
    IF i > Len(searches) THEN <<>>
    ELSE TracerStrings(searches[i].what, searches[i].arg) \o StringsOf(searches, i + 1)

\* the events that tell what a driver did with a candidate: the construction of
\* its tracer, or the record of its being skipped for its segment
Handled(events) ==
    SelectSeq(events, LAMBDA ev : ev.op = "Tracer"
                                  \/ (ev.op = "append_debug" /\ ev.what = "Segment .pdata"))

\* C14: in both drivers the result is the concatenation, in candidate order, of
\* the string lists of exactly the tracers whose search() returned true; a tracer
\* whose construction raised the no-function error was not searched, and every
\* candidate, also after a failed one, was handled, in candidate order.
C14_DriversSkipFailedTracers ==
    DriverReturned =>
        LET searched == EventsOf(log, "search")
            found == SelectSeq(searched, LAMBDA ev : ev.what \in {"found none", "found one",
                                                                  "found two"})
            constructed == SelectSeq(EventsOf(log, "Tracer"),
                                     LAMBDA ev : ev.what = "constructed")
        IN  /\ outcome.value = StringsOf(found, 1)
            /\ [i \in 1..Len(searched) |-> searched[i].arg]
                   = [i \in 1..Len(constructed) |-> constructed[i].arg]
            /\ [i \in 1..Len(Handled(log)) |-> Handled(log)[i].arg] = Candidates

\* C14 witness: a driver returned the strings of its third candidate alone, after
\* a first one whose tracer could not be constructed and a second one whose
\* search() returned false
C14_Witness ==
    /\ DriverReturned
    /\ Len(Candidates) = 3
    /\ \E i \in 1..Len(log) : log[i] = Event("Tracer", "AttributeError", Candidates[1])
    /\ \E i \in 1..Len(log) : log[i] = Event("search", "not found", Candidates[2])
    /\ \E i \in 1..Len(log) : log[i] = Event("search", "found two", Candidates[3])
    /\ outcome.value = TracerStrings("found two", Candidates[3])


\* ======================================================================
\* Properties of output_strings and patch()
\* ======================================================================

\* two entities have the same key: the same variant and the same fields of it
SameKey(a, b) ==
    /\ a.cls = b.cls
    /\ a.string_reference = b.string_reference
    /\ a.decoded_data = b.decoded_data
    /\ IF a.cls = "EncodedString"
       THEN a.string_location = b.string_location
       ELSE a.frame_id = b.frame_id /\ a.stack_offset = b.stack_offset

\* the number of distinct keys in a list of entities
DistinctKeys(list) ==
    Cardinality({i \in 1..Len(list) : \A j \in 1..(i - 1) : ~SameKey(list[i], list[j])})

\* output_strings has ended, by returning or by raising
OutputEnded == pc \in {"output_strings returned", "output_strings raised"}

\* C18: with dedup=true, when output_strings has ended it has emitted exactly one
\* text for each distinct key among its input entities (for a located entity the
\* key is location, reference and decoded bytes, for a stack-resident one
\* reference, frame_id, stack_offset and decoded bytes, and the two variants
\* never share a key).
C18_OneTextPerDistinctKey ==
    (OutputEnded /\ host.dedup)
        => Len(EventsOf(log, "append_string")) = DistinctKeys(host.decoded_strings)

\* how often op was called on the entity processed at position k
CallsOn(op, k) == Cardinality({i \in 1..Len(log) : log[i].op = op /\ log[i].arg = k})

\* every call of op on the entity at position k comes after its text was emitted
AfterText(op, k) ==
    \A i \in 1..Len(log) :
        (log[i].op = op /\ log[i].arg = k)
            => \E j \in 1..(i - 1) : log[j].op = "append_string" /\ log[j].arg = k

\* C19: when output_strings has ended it has returned a list with one text per
\* processed entity (every input entity when dedup=false), the processed
\* entities are in non-decreasing order of their key, and for each of them
\* rename was called once exactly when rename=true and patch once exactly when
\* patch=true, after its text was emitted.
C19_OneTextPerEntityInOrder ==
    OutputEnded
        => /\ outcome.raised = "none"
           /\ Len(outcome.value) = Len(decoded_strings)
           /\ ~host.dedup => Len(outcome.value) = Len(host.decoded_strings)
           /\ \A i, j \in 1..Len(decoded_strings) :
                 i < j => ~Less(decoded_strings[j], decoded_strings[i])
           /\ \A k \in 1..Len(string_list) :
                 /\ CallsOn("rename", k) = IF host.rename THEN 1 ELSE 0
                 /\ CallsOn("patch", k) = IF host.patch THEN 1 ELSE 0
                 /\ AfterText("rename", k)
                 /\ AfterText("patch", k)

\* C20: patch() on an EncodedStackString, in whatever state the entity is,
\* raises nothing, calls no patch or define operation of the Binary Context
\* (the log gains the call and nothing else, the image is as before) and leaves
\* every field of the entity unchanged.
C20_StackPatchIsNoOp ==
    [][(entity.cls = "EncodedStackString" /\ EventsOf(log', "patch") # EventsOf(log, "patch"))
          => /\ entity' = entity
             /\ idb' = idb
             /\ outcome' = NoOutcome
             /\ log' = Append(log, Event("patch", "EncodedStackString", INVALID))]_vars

\* a decoded stack-resident entity with frame_id, stack_offset and size was
\* patched
C20_Witness ==
    /\ entity.cls = "EncodedStackString"
    /\ entity.decoded_type = "str"
    /\ entity.decoded_data # <<>>
    /\ ~Falsy(entity.frame_id)
    /\ ~Falsy(entity.stack_offset)
    /\ entity.size # INVALID
    /\ EventsOf(log, "patch") # <<>>

\* ======================================================================
\* Properties of string_decoder_main
\* ======================================================================

\* the run has ended, by returning or by raising
RunEnded == pc \in {"string_decoder_main returned", "string_decoder_main raised"}

\* some event of the log has this op and this what
Logged(op, what) == \E i \in 1..Len(log) : log[i].op = op /\ log[i].what = what

\* the hits that lie at an address
RealHits == {i \in 1..Len(YARA_MATCHES) : YARA_MATCHES[i].ea # BADADDR}

\* C15: in xref-driven mode a hit for which no function exists and none can be
\* created is logged and skipped: nothing is raised, and when the run has ended
\* every other hit was turned into a SuperFunc_t.
C15_NoFunctionHitIsSkipped ==
    \A i \in 1..Len(log) :
        (log[i].op = "SuperFunc_t" /\ log[i].what = "AttributeError")
            => /\ outcome.raised = "none"
               /\ pc # "string_decoder_main raised"
               /\ \E j \in (i + 1)..Len(log) :
                     log[j].op = "append_debug" /\ log[j].arg = log[i].arg
               /\ RunEnded
                     => \A h \in RealHits :
                           \E j \in 1..Len(log) :
                              /\ log[j].op = "SuperFunc_t"
                              /\ log[j].arg = YARA_MATCHES[h].ea

\* C16: when the Pattern Matcher finds no match, in either mode, the run ends
\* with the pattern-match failure logged and no output, and no tracer, decode,
\* rename or patch step has run.
C16_NoMatchIsReported ==
    (RunEnded /\ Logged("yara.match", "no match"))
        => /\ outcome = ReturnsNone
           /\ Logged("append_debug", "The provided YARA rule failed to match")
           /\ \A i \in 1..Len(log) :
                 log[i].op \notin {"Tracer", "search", "decode", "append_string", "rename",
                                   "patch"}

\* the input file was located: the recorded path exists, or the file next to
\* the database exists, has the recorded MD5 and its path was adopted
Located ==
    \/ \E i \in 1..Len(log) : log[i] = Event("os.path.exists", host.run.path, 1)
    \/ /\ \E i \in 1..Len(log) : log[i] = Event("os.path.exists", "local path", 1)
       /\ \E i \in 1..Len(log) : log[i] = Event("md5", host.run.md5, 0)
       /\ INPUT_FILE_PATH = "local path"

DebugAfter(i, arg) ==
    \E j \in (i + 1)..Len(log) : log[j].op = "append_debug" /\ log[j].arg = arg

\* C21: every path that skips a candidate or makes an operation a no-op appends
\* a debug record: a tracer that cannot be built, a search() that is false, a
\* hit at BADADDR, an entity with unresolved bytes, an aborted decode, and a
\* patch() that patches nothing.
C21_SkipsAreLogged ==
    /\ \A i \in 1..Len(log) :
          /\ (log[i].op = "Tracer" /\ log[i].what = "AttributeError")
                => DebugAfter(i, log[i].arg)
          /\ (log[i].op = "search" /\ log[i].what = "not found")
                => DebugAfter(i, log[i].arg)
          /\ log[i].op = "patch"
                => /\ i < Len(log)
                   /\ log[i + 1].op \in {"patch_many_bytes", "append_debug"}
    /\ pc = "string_decoder_main returned"
          => /\ \A k \in 1..Len(encoded_strings) :
                   (\/ encoded_strings[k].encoded_type = "INVALID"
                    \/ encoded_strings[k].decoded_type # "str"
                    \/ encoded_strings[k].decoded_data = <<>>)
                      => \E j \in 1..Len(log) :
                            log[j].op = "append_debug" /\ log[j].arg = k
             /\ ~host.run.inline
                   => \A h \in 1..Len(YARA_MATCHES) :
                         YARA_MATCHES[h].ea = BADADDR
                            => \E j \in 1..Len(log) :
                                  log[j].op = "append_debug" /\ log[j].arg = BADADDR

\* ======================================================================
\* Properties of SuperFunc_t
\* ======================================================================

\* C22: xrefs_to of a constructed SuperFunc_t holds every cross-reference to the
\* start of the function that comes from outside the function, none that comes
\* from inside it, and each address at most once, whatever list the Binary
\* Context returned.
C22_CallersOutsideAndOnce ==
    pc = "constructed"
        => LET xrefs_to == funcs[1].xrefs_to
           IN  /\ \A i \in 1..Len(host.xrefs) :
                     host.xrefs[i].func # "sub_100"
                        => \E k \in 1..Len(xrefs_to) : xrefs_to[k] = host.xrefs[i].frm
               /\ \A k \in 1..Len(xrefs_to) :
                     \E i \in 1..Len(host.xrefs) :
                        host.xrefs[i].frm = xrefs_to[k] /\ host.xrefs[i].func # "sub_100"
               /\ \A k, m \in 1..Len(xrefs_to) : k # m => xrefs_to[k] # xrefs_to[m]

\* the last call of rename in a log
LastRename(events) ==
    EventsOf(events, "SuperFunc_t.rename")[Len(EventsOf(events, "SuperFunc_t.rename"))]

\* C23: a successful rename leaves in the name field the name the host now
\* reports for the function (the adjusted name after a collision, the default
\* name after a reset); a failed rename leaves the name field unchanged.
C23_NameIsTheHostsName ==
    [][Len(EventsOf(log', "SuperFunc_t.rename")) > Len(EventsOf(log, "SuperFunc_t.rename"))
          => IF LastRename(log').arg = 1
             THEN funcs'[1].name = idb'.name
             ELSE funcs'[1].name = funcs[1].name]_vars

\* ======================================================================
\* Properties of get_bytes
\* ======================================================================

\* C24: get_bytes on an entity of either variant whose size was never computed
\* raises ValueError and changes no field of the entity.
C24_GetBytesNeedsSize ==
    [][(entity.size = INVALID /\ Len(EventsOf(log', "get_bytes")) > Len(EventsOf(log, "get_bytes")))
          => /\ outcome'.raised = "ValueError"
             /\ entity' = entity]_vars

\* ======================================================================
\* Properties of the order of an engine run
\* ======================================================================

\* the stage an event belongs to: tracing, decoding, output, patching (0 for the
\* events of no stage)
StageOf(op) ==
    IF op \in {"Tracer", "search"} THEN 1
    ELSE IF op = "decode" THEN 2
    ELSE IF op \in {"append_string", "rename"} THEN 3
    ELSE IF op = "patch" THEN 4
    ELSE 0

\* C25 (as stated): each candidate is processed start-to-finish before the next
\* begins: no string of a candidate is decoded after the tracer of a later
\* candidate was constructed.
C25_CandidateByCandidate ==
    \A t1, t2, d \in 1..Len(log) :
        (/\ t1 < t2 /\ t2 < d
         /\ log[t1].op = "Tracer" /\ log[t2].op = "Tracer" /\ log[d].op = "decode"
         /\ log[t1].arg # log[t2].arg)
            => encoded_strings[log[d].arg].string_reference # log[t1].arg

\* C25 (amended): the stages of a run do not interleave and the tracers do not
\* overlap: every tracer event precedes every decode step, every decode step
\* every output step, every output step every step of patch_decoded, and a
\* tracer that was constructed is searched before anything else happens.
C25_StageByStage ==
    /\ \A i, j \in 1..Len(log) :
          (i < j /\ StageOf(log[i].op) # 0 /\ StageOf(log[j].op) # 0)
             => StageOf(log[i].op) <= StageOf(log[j].op)
    /\ \A i \in 1..Len(log) :
          (log[i].op = "Tracer" /\ log[i].what = "constructed")
             => /\ i < Len(log)
                /\ log[i + 1].op = "search"
                /\ log[i + 1].arg = log[i].arg

\* a run with two candidates has ended: both tracers found strings, a string of
\* the first candidate was decoded after the tracer of the second was built,
\* and the strings were emitted and patched
C25_Witness ==
    /\ pc = "string_decoder_main returned"
    /\ Len(EventsOf(log, "search")) = 2
    /\ \A i \in 1..Len(log) : log[i].op = "search" => log[i].what = "found one"
    /\ Len(EventsOf(log, "decode")) = 2
    /\ Len(EventsOf(log, "append_string")) = 2
    /\ Len(EventsOf(log, "patch")) = 2

\* ======================================================================
\* Properties of the globals across runs
\* ======================================================================

\* C26: when a run has ended, with output or with a fatal failure, the lists of
\* get_encoded_strings and get_decoded_strings hold only entities that a tracer
\* of this run found, and the match list is the one this run's match filled.
C26_NoCrossContamination ==
    RunEnded
        => /\ \A k \in 1..Len(get_encoded_strings) :
                 \E i \in 1..Len(log) :
                    /\ log[i].op = "search"
                    /\ log[i].arg = get_encoded_strings[k].string_reference
           /\ \A k \in 1..Len(get_decoded_strings) :
                 \E i \in 1..Len(log) :
                    /\ log[i].op = "search"
                    /\ log[i].arg = get_decoded_strings[k].string_reference
           /\ Len(YARA_MATCHES) > 0 => \E i \in 1..Len(log) : log[i].op = "yara.match"

\* ======================================================================
\* Frame and termination of split_decoded_string
\* ======================================================================

\* C27: no step of split_decoded_string changes the entity it was given: its
\* decoded data, size, offset, location, reference, key and recorded codec stay
\* what they were, for every buffer and with or without identify.
C27_SourceEntityUnchanged ==
    [][/\ entity'.decoded_data = entity.decoded_data
       /\ entity'.size = entity.size
       /\ entity'.offset = entity.offset
       /\ entity'.string_location = entity.string_location
       /\ entity'.string_reference = entity.string_reference
       /\ entity'.key = entity.key
       /\ entity'.code_page = entity.code_page]_vars

\* C27 witness: the call returned substrings cut at an offset past the start of
\* the buffer and asked for them to be defined
C27_Witness ==
    /\ pc = "returned"
    /\ identify
    /\ Len(results) >= 2
    /\ \E i \in 1..Len(results) :
          /\ results[i].offset > 0
          /\ results[i].decoded_data # entity.decoded_data
          /\ results[i].size # entity.size

\* C28: split_decoded_string never raises, whatever the buffer and the recorded
\* size: no call ends in the IndexError of line 769.
C28_NeverRaises == pc # "IndexError"

\* C28: in the inner loop string_end strictly decreases, and in the outer loop
\* section_start strictly increases.
C28_LoopsProgress ==
    [][/\ (pc = "string" /\ pc' = "string") => string_end' < string_end
       /\ (pc = "section" /\ pc' = "string") => section_start' > section_start]_vars

\* ======================================================================
\* Properties of the test case support
\* ======================================================================

\* the non-empty items of a result list
NonEmptyItems(list) == {list[i] : i \in 1..Len(list)} \ {<<>>}

\* the first compare of a ResultComparison has returned
FreshCompared ==
    /\ host.compares = 1
    /\ pc \in {"compare returned", "passed returned True", "passed returned False"}

\* C29: after compare on a fresh comparer, code is PASS exactly when every
\* non-empty expected item is in the new results and every non-empty new item is
\* in the expected results, FAIL whenever a non-empty expected item is missing,
\* SUPERSET exactly when nothing is missing and a non-empty new item is
\* unexpected; passed() returns True only when code is PASS; the empty items
\* have no part in it.
C29_CodeOfComparison ==
    FreshCompared
        => LET expected == NonEmptyItems(host.test_case_results)
               new == NonEmptyItems(host.new_results)
           IN  /\ comparer.code = PASS <=> (expected \subseteq new /\ new \subseteq expected)
               /\ ~(expected \subseteq new) => comparer.code = FAIL
               /\ comparer.code = SUPERSET
                     <=> (expected \subseteq new /\ ~(new \subseteq expected))
               /\ pc = "passed returned True" => comparer.code = PASS
               /\ pc = "passed returned False" => comparer.code \in {FAIL, SUPERSET}

\* C29 witness: passed() returned True for lists that differ in their empty
\* items only
C29_Witness ==
    /\ FreshCompared
    /\ pc = "passed returned True"
    /\ In(<<>>, host.test_case_results)
    /\ ~In(<<>>, host.new_results)
    /\ NonEmptyItems(host.new_results) # {}

\* the records a results file holds
RecordsOf(file) == IF file.isfile /\ file.json THEN file.records ELSE <<>>

\* the indexes of the records of an input file path
RecordsFor(records, path) == {i \in 1..Len(records) : records[i].input_file = path}

\* C30: a results file that started empty or absent holds at most one record
\* per input file path after every call of update_test_results: a call whose
\* input file path has a record keeps the count, replacing that record when
\* replace is true and leaving it when replace is false; a call with a new path
\* appends exactly one record; the other records and the order stay.
C30_OneRecordPerInputFile ==
    [][LET before == RecordsOf(results_file)
           after == RecordsOf(results_file')
           data == host'.results_data
           had == RecordsFor(before, data.input_file)
       IN  /\ \A path \in InputFiles : Cardinality(RecordsFor(after, path)) <= 1
           /\ IF had # {}
              THEN /\ Len(after) = Len(before)
                   /\ \A i \in 1..Len(before) :
                         after[i] = IF i \in had /\ host'.replace THEN data ELSE before[i]
              ELSE after = Append(before, data)]_vars

=========================================================================
